---- MODULE Spec2Model ----
(***************************************************************************)
(* Rally Castrol Legends: the simulation core of GameEngine (the vehicle   *)
(* dynamics of a frame, the off-road test, the lap logic), the track       *)
(* spline and the grid-city tile generator, as state machines.             *)
(*                                                                         *)
(* Numbers.  The program computes in IEEE doubles; the model computes in   *)
(* integers.  A speed, angle (radians or degrees), grip or tuning knob q   *)
(* is held as q * SC rounded toward zero (SC = 1000), a weight fraction in *)
(* millionths, a mass in kg.  World coordinates are whole units, except in *)
(* SpecCar, which integrates the velocity and holds them in thousandths.   *)
(*                                                                         *)
(* Specifications.  SpecUrban: the tile map under updateLoadedTiles.       *)
(* SpecCar: the physics phase of loop().  SpecGrip: the tire grip curve.   *)
(* SpecLoop: off-road test and lap logic on ring tracks.                   *)
(***************************************************************************)
EXTENDS Integers, Sequences, FiniteSets, TLC

VARIABLES
  track,          \* the track prop of the running GameEngine
  urban,          \* urbanStateRef.current: loadedTiles, worldSeed, playerGridPos
  everLoaded,     \* history: the tile first generated at a coordinate (per seed)
  car,            \* carRef.current
  tuning,         \* the tuning prop read by the tick
  lastInputs,     \* history: the input snapshot the last tick read
  tickOut,        \* history: locals of the last tick that the outputs expose
  game,           \* gameStateRef.current (track points, checkpoint, lap, ...)
  ticks           \* number of ticks taken (bounded)

vars == <<track, urban, everLoaded, car, tuning, lastInputs, tickOut, game, ticks>>

(***************************************************************************)
(* Small helpers.                                                          *)
(***************************************************************************)
\* the value of a variable the specification at hand does not use
Idle == "idle"

Abs(x) == IF x < 0 THEN -x ELSE x
Min(a, b) == IF a <= b THEN a ELSE b
Max(a, b) == IF a >= b THEN a ELSE b
Sign(x) == IF x > 0 THEN 1 ELSE IF x < 0 THEN -1 ELSE 0

\* Math.floor(a / b) for b > 0
FloorDiv(a, b) == a \div b

\* a / b rounded toward zero (b > 0): the model's fixed-point quotient
TruncDiv(a, b) == IF a >= 0 THEN a \div b ELSE -((-a) \div b)

(***************************************************************************)
(* GRID CITY  (urban generator)                                            *)
(***************************************************************************)
TILE_SIZE == 800
ROAD_WIDTH == 200
BUILDING_MARGIN == 20
LOAD_RADIUS == 3

ROAD == "ROAD"
BUILDING == "BUILDING"

Edges(n, e, s, w) == [north |-> n, east |-> e, south |-> s, west |-> w]
Zone(zx, zy, zw, zh) == [x |-> zx, y |-> zy, width |-> zw, height |-> zh]

\* the four rectangles the catalog is built from
ZoneVertFull  == Zone((TILE_SIZE - ROAD_WIDTH) \div 2, 0, ROAD_WIDTH, TILE_SIZE)
ZoneHorizFull == Zone(0, (TILE_SIZE - ROAD_WIDTH) \div 2, TILE_SIZE, ROAD_WIDTH)
ZoneNorthArm  == Zone((TILE_SIZE - ROAD_WIDTH) \div 2, 0, ROAD_WIDTH, (TILE_SIZE + ROAD_WIDTH) \div 2)
ZoneSouthArm  == Zone((TILE_SIZE - ROAD_WIDTH) \div 2, (TILE_SIZE - ROAD_WIDTH) \div 2,
                      ROAD_WIDTH, (TILE_SIZE + ROAD_WIDTH) \div 2)
\* an east arm that stops short of the tile's side
ZoneEastArmShort == Zone((TILE_SIZE - ROAD_WIDTH) \div 2, (TILE_SIZE - ROAD_WIDTH) \div 2,
                         TILE_SIZE \div 2, ROAD_WIDTH)
ZoneEastArm   == Zone((TILE_SIZE - ROAD_WIDTH) \div 2, (TILE_SIZE - ROAD_WIDTH) \div 2,
                      (TILE_SIZE + ROAD_WIDTH) \div 2, ROAD_WIDTH)
ZoneWestArm   == Zone(0, (TILE_SIZE - ROAD_WIDTH) \div 2, (TILE_SIZE + ROAD_WIDTH) \div 2, ROAD_WIDTH)

\* Object.entries(TILE_DEFINITIONS) enumerates the keys in this (insertion) order
TileOrder ==
  << "CROSSROADS", "STRAIGHT_NS", "STRAIGHT_EW", "CORNER_NE", "CORNER_ES", "CORNER_SW",
     "CORNER_NW", "T_JUNCTION_NES", "T_JUNCTION_ESW", "T_JUNCTION_NSW", "T_JUNCTION_NEW",
     "DEAD_END_N", "DEAD_END_E", "DEAD_END_S", "DEAD_END_W", "EMPTY" >>

TileTypes == { TileOrder[i] : i \in 1..Len(TileOrder) }

TILE_DEFINITIONS ==
  [ t \in TileTypes |->
    CASE t = "CROSSROADS"     -> [edges |-> Edges(ROAD, ROAD, ROAD, ROAD),
                                  roadZones |-> <<ZoneVertFull, ZoneHorizFull>>]
      [] t = "STRAIGHT_NS"    -> [edges |-> Edges(ROAD, BUILDING, ROAD, BUILDING),
                                  roadZones |-> <<ZoneVertFull>>]
      [] t = "STRAIGHT_EW"    -> [edges |-> Edges(BUILDING, ROAD, BUILDING, ROAD),
                                  roadZones |-> <<ZoneHorizFull>>]
      [] t = "CORNER_NE"      -> [edges |-> Edges(ROAD, ROAD, BUILDING, BUILDING),
                                  roadZones |-> <<ZoneNorthArm, ZoneEastArm>>]
      [] t = "CORNER_ES"      -> [edges |-> Edges(BUILDING, ROAD, ROAD, BUILDING),
                                  roadZones |-> <<ZoneSouthArm, ZoneEastArm>>]
      [] t = "CORNER_SW"      -> [edges |-> Edges(BUILDING, BUILDING, ROAD, ROAD),
                                  roadZones |-> <<ZoneSouthArm, ZoneWestArm>>]
      [] t = "CORNER_NW"      -> [edges |-> Edges(ROAD, BUILDING, BUILDING, ROAD),
                                  roadZones |-> <<ZoneNorthArm, ZoneWestArm>>]
      [] t = "T_JUNCTION_NES" -> [edges |-> Edges(ROAD, ROAD, ROAD, BUILDING),
                                  roadZones |-> <<ZoneVertFull, ZoneEastArm>>]
      [] t = "T_JUNCTION_ESW" -> [edges |-> Edges(BUILDING, ROAD, ROAD, ROAD),
                                  roadZones |-> <<ZoneHorizFull, ZoneSouthArm>>]
      [] t = "T_JUNCTION_NSW" -> [edges |-> Edges(ROAD, BUILDING, ROAD, ROAD),
                                  roadZones |-> <<ZoneVertFull, ZoneWestArm>>]
      [] t = "T_JUNCTION_NEW" -> [edges |-> Edges(ROAD, ROAD, BUILDING, ROAD),
                                  roadZones |-> <<ZoneHorizFull, ZoneNorthArm>>]
      [] t = "DEAD_END_N"     -> [edges |-> Edges(ROAD, BUILDING, BUILDING, BUILDING),
                                  roadZones |-> <<ZoneNorthArm>>]
      [] t = "DEAD_END_E"     -> [edges |-> Edges(BUILDING, ROAD, BUILDING, BUILDING),
                                  roadZones |-> <<ZoneEastArm>>]
      [] t = "DEAD_END_S"     -> [edges |-> Edges(BUILDING, BUILDING, ROAD, BUILDING),
                                  roadZones |-> <<ZoneSouthArm>>]
      [] t = "DEAD_END_W"     -> [edges |-> Edges(BUILDING, BUILDING, BUILDING, ROAD),
                                  roadZones |-> <<ZoneWestArm>>]
      [] OTHER                -> [edges |-> Edges(BUILDING, BUILDING, BUILDING, BUILDING),
                                  roadZones |-> <<>>] ]

(***************************************************************************)
(* seedRandom(gx, gy, worldSeed) = frac(sin((gx*73856093) ^ (gy*19349663)  *)
(* ^ (worldSeed*83492791)) * 10000), the operands of ^ taken as 32-bit     *)
(* integers.  The tables below hold the values of that formula for the     *)
(* world seeds (values of Date.now())                                      *)
(*    1: 1700000000000   2: 1712345678901                                  *)
(*    3: 1730000000123   4: 1699999999999                                  *)
(* and grid coordinates -TableRadius..TableRadius, in the two forms the    *)
(* generator consumes them:                                                *)
(*   Rand16Table[s][gy+R+1][gx+R+1] = floor(seedRandom(gx,gy,s) * 16);     *)
(*   BuildingCountTable[s][gy+R+1][gx+R+1] = the successive values of      *)
(*   1 + floor(rand() * 3) that generateBuildings draws for the first,     *)
(*   second, third and fourth quadrant it populates (each populated        *)
(*   quadrant consumes one draw for its count and five per building).      *)
(***************************************************************************)
TableRadius == 2 * LOAD_RADIUS + 1

Rand16Table ==
  <<
  <<<<5,0,11,3,0,5,6,5,6,14,10,0,6,6,8>>,
    <<10,1,15,0,14,15,11,14,4,13,1,2,0,7,5>>,
    <<0,4,4,14,7,3,0,1,13,1,11,8,8,6,4>>,
    <<11,4,3,0,7,2,4,5,11,13,8,2,12,11,4>>,
    <<5,2,8,1,6,2,11,15,5,14,8,10,3,8,3>>,
    <<2,15,9,1,0,2,0,1,15,5,15,2,6,2,13>>,
    <<14,14,12,11,1,4,3,5,12,14,7,6,5,14,3>>,
    <<8,9,11,8,8,11,14,13,1,4,7,7,4,6,7>>,
    <<3,1,5,4,7,11,12,10,3,1,1,9,12,1,14>>,
    <<2,2,12,14,4,5,9,14,6,2,11,13,3,15,13>>,
    <<3,13,3,14,8,13,5,0,11,1,6,5,8,7,5>>,
    <<0,8,14,2,2,15,6,10,9,0,13,0,1,7,15>>,
    <<4,11,8,1,11,12,13,14,0,14,7,7,4,9,0>>,
    <<14,7,0,15,9,13,8,1,7,15,6,13,15,1,1>>,
    <<8,15,6,12,10,10,6,10,6,1,0,15,11,9,5>>>>,
  <<<<6,3,0,8,11,9,10,0,7,10,3,10,11,1,11>>,
    <<7,11,12,4,0,1,6,4,9,11,15,9,3,15,8>>,
    <<10,14,9,11,12,8,8,6,12,7,2,12,13,11,7>>,
    <<1,14,7,4,6,8,8,7,7,7,9,13,8,1,14>>,
    <<9,0,5,8,2,6,13,9,10,11,4,15,13,7,8>>,
    <<9,3,0,15,15,0,9,8,6,0,0,14,15,8,6>>,
    <<12,6,1,4,3,3,1,12,6,2,9,11,0,1,6>>,
    <<7,3,10,15,7,0,3,14,12,15,8,0,5,12,8>>,
    <<6,9,0,11,9,12,6,3,1,13,3,4,1,14,12>>,
    <<13,8,8,0,10,0,12,7,3,0,5,1,7,3,2>>,
    <<8,15,13,7,4,9,10,6,13,4,2,0,5,8,9>>,
    <<7,14,2,13,9,12,3,8,12,3,6,4,13,1,8>>,
    <<7,1,13,4,2,7,12,9,8,8,12,3,9,4,10>>,
    <<9,15,1,11,2,11,2,11,13,1,13,6,14,11,6>>,
    <<11,12,11,7,3,6,7,15,10,5,11,5,0,14,6>>>>,
  <<<<14,11,8,14,8,11,3,7,11,0,13,10,2,12,5>>,
    <<3,13,8,10,14,14,9,12,6,15,1,14,7,8,12>>,
    <<14,15,11,15,13,9,5,15,1,13,13,15,1,13,8>>,
    <<3,4,6,5,1,15,0,10,15,0,14,1,9,11,12>>,
    <<9,8,6,5,3,14,2,2,14,11,3,4,7,3,1>>,
    <<11,0,11,2,5,8,12,7,3,7,10,5,4,7,4>>,
    <<7,2,11,2,7,14,10,11,12,7,2,5,1,9,13>>,
    <<6,9,8,13,8,3,2,7,13,12,7,2,7,6,9>>,
    <<13,13,1,13,2,1,12,4,10,8,7,10,11,6,7>>,
    <<10,7,11,13,15,7,8,8,7,8,0,10,4,0,5>>,
    <<1,7,7,10,3,1,14,13,2,4,3,11,6,12,9>>,
    <<5,15,4,1,7,8,15,5,0,7,8,5,11,0,10>>,
    <<8,0,1,0,13,6,1,0,5,2,13,0,11,2,14>>,
    <<5,8,8,5,15,15,5,3,10,14,0,1,7,13,10>>,
    <<5,4,2,1,13,4,11,8,3,15,8,5,8,3,14>>>>,
  <<<<11,13,8,12,12,3,13,7,14,12,2,7,3,10,6>>,
    <<13,6,12,11,15,3,11,4,4,6,0,15,3,0,2>>,
    <<11,1,8,2,11,1,0,3,7,14,7,6,13,1,7>>,
    <<2,5,11,3,5,10,7,8,8,5,10,9,4,10,13>>,
    <<1,1,7,1,6,11,13,0,6,14,7,11,13,2,7>>,
    <<9,6,10,10,1,13,5,14,10,10,14,6,5,14,6>>,
    <<3,2,15,13,4,4,5,15,13,14,2,11,5,12,13>>,
    <<6,0,15,7,2,4,3,4,12,11,13,8,0,15,9>>,
    <<13,13,5,2,2,11,13,0,5,1,4,4,15,3,3>>,
    <<0,14,6,5,3,10,4,1,11,13,12,9,9,6,15>>,
    <<7,14,13,14,7,4,6,15,13,1,6,4,7,13,1>>,
    <<14,9,11,9,2,7,7,7,8,8,13,3,4,6,1>>,
    <<7,14,13,13,7,14,7,12,0,1,11,9,8,14,11>>,
    <<2,0,2,4,10,6,5,11,10,3,5,0,13,6,13>>,
    <<6,2,3,3,2,12,14,8,13,3,12,8,8,5,11>>>>
  >>
BuildingCountTable ==
  <<
  <<<<<<2,2,2,1>>,<<2,2,3,1>>,<<3,3,2,3>>,<<2,2,1,2>>,<<2,1,2,2>>,<<3,3,3,1>>,<<3,1,1,3>>,<<3,3,1,1>>,<<1,2,3,1>>,<<1,3,1,3>>,<<2,1,1,2>>,<<2,1,1,1>>,<<1,3,2,1>>,<<2,2,2,3>>,<<2,3,3,3>>>>,
    <<<<1,2,2,2>>,<<1,2,1,2>>,<<1,1,3,1>>,<<1,3,3,3>>,<<2,2,2,2>>,<<3,1,3,3>>,<<3,1,1,2>>,<<2,1,1,1>>,<<1,1,2,1>>,<<1,2,2,1>>,<<1,1,2,1>>,<<2,2,2,1>>,<<3,1,3,3>>,<<1,3,2,1>>,<<3,1,1,3>>>>,
    <<<<1,1,3,3>>,<<1,1,1,3>>,<<3,1,1,1>>,<<3,3,2,2>>,<<1,2,3,1>>,<<2,2,1,1>>,<<2,3,1,2>>,<<3,2,3,2>>,<<2,2,3,1>>,<<1,1,3,1>>,<<3,2,2,1>>,<<3,3,1,2>>,<<1,1,2,1>>,<<3,1,3,2>>,<<3,1,2,1>>>>,
    <<<<1,1,3,2>>,<<3,2,2,3>>,<<1,3,3,3>>,<<3,2,3,3>>,<<2,2,3,1>>,<<3,3,2,3>>,<<1,2,3,2>>,<<1,1,1,3>>,<<3,1,3,3>>,<<1,3,2,3>>,<<2,1,3,1>>,<<2,2,1,1>>,<<2,2,1,1>>,<<2,1,3,3>>,<<2,3,3,1>>>>,
    <<<<1,1,3,1>>,<<2,2,1,1>>,<<3,2,2,1>>,<<1,1,1,3>>,<<1,2,3,2>>,<<3,3,2,1>>,<<2,1,2,1>>,<<2,1,1,3>>,<<2,1,1,3>>,<<1,2,1,3>>,<<3,3,2,1>>,<<1,1,2,2>>,<<1,1,3,2>>,<<2,2,1,1>>,<<3,2,1,2>>>>,
    <<<<1,2,1,1>>,<<3,2,2,1>>,<<2,3,3,3>>,<<1,1,3,3>>,<<3,2,1,1>>,<<3,3,2,2>>,<<3,3,2,3>>,<<3,2,2,2>>,<<1,2,2,3>>,<<3,1,3,2>>,<<2,2,2,3>>,<<2,1,3,1>>,<<1,1,3,2>>,<<2,1,2,2>>,<<1,1,1,2>>>>,
    <<<<3,3,2,3>>,<<2,1,1,3>>,<<1,3,1,1>>,<<3,2,2,3>>,<<2,1,2,1>>,<<3,1,1,1>>,<<2,3,2,2>>,<<1,2,2,2>>,<<2,1,1,3>>,<<3,1,1,2>>,<<2,1,2,2>>,<<3,2,3,2>>,<<3,3,2,2>>,<<1,2,3,3>>,<<1,3,2,3>>>>,
    <<<<2,2,3,1>>,<<3,3,1,1>>,<<2,2,3,3>>,<<3,1,3,1>>,<<2,3,2,2>>,<<2,3,2,1>>,<<2,2,1,3>>,<<2,2,2,2>>,<<2,3,2,2>>,<<1,2,2,1>>,<<1,1,2,2>>,<<3,1,2,2>>,<<3,1,1,3>>,<<2,3,2,3>>,<<2,2,2,3>>>>,
    <<<<1,3,3,3>>,<<1,2,1,3>>,<<1,1,2,1>>,<<3,3,1,1>>,<<1,1,1,1>>,<<3,1,2,1>>,<<2,1,2,3>>,<<3,1,3,3>>,<<2,1,1,1>>,<<1,1,3,2>>,<<3,2,1,2>>,<<1,1,3,2>>,<<3,2,2,3>>,<<3,1,2,2>>,<<3,1,1,3>>>>,
    <<<<2,1,3,2>>,<<2,3,3,2>>,<<1,3,2,2>>,<<3,3,2,3>>,<<1,3,2,1>>,<<3,3,1,2>>,<<3,3,1,2>>,<<2,1,3,2>>,<<1,3,1,3>>,<<3,2,1,1>>,<<2,3,1,3>>,<<1,1,1,1>>,<<3,2,2,1>>,<<3,3,2,2>>,<<3,2,2,1>>>>,
    <<<<1,3,1,1>>,<<2,3,2,1>>,<<2,2,1,2>>,<<1,2,2,3>>,<<1,1,1,1>>,<<1,2,1,1>>,<<1,2,2,3>>,<<2,1,3,2>>,<<3,3,1,3>>,<<3,1,3,1>>,<<3,3,3,2>>,<<2,3,1,2>>,<<2,3,1,3>>,<<1,1,1,3>>,<<3,3,3,1>>>>,
    <<<<3,1,2,2>>,<<1,1,3,2>>,<<1,1,2,3>>,<<1,2,3,2>>,<<2,1,3,2>>,<<3,3,2,3>>,<<2,2,2,3>>,<<2,3,1,3>>,<<2,3,1,1>>,<<2,3,2,3>>,<<1,2,1,3>>,<<3,2,3,1>>,<<2,2,2,1>>,<<3,1,2,1>>,<<1,1,3,3>>>>,
    <<<<3,3,3,1>>,<<2,2,1,1>>,<<3,1,1,3>>,<<3,1,1,2>>,<<1,1,3,2>>,<<2,2,1,2>>,<<3,1,3,3>>,<<1,3,2,2>>,<<1,2,1,3>>,<<2,2,1,1>>,<<3,2,1,1>>,<<1,1,2,2>>,<<1,1,1,3>>,<<2,3,2,2>>,<<1,2,3,2>>>>,
    <<<<3,3,1,3>>,<<3,1,2,2>>,<<3,1,3,1>>,<<3,1,3,2>>,<<1,1,2,1>>,<<2,2,2,2>>,<<1,2,1,3>>,<<1,3,2,3>>,<<3,2,2,2>>,<<3,1,3,3>>,<<1,2,2,2>>,<<2,1,3,3>>,<<2,2,2,2>>,<<3,1,1,2>>,<<1,3,1,3>>>>,
    <<<<1,2,3,2>>,<<3,3,1,2>>,<<2,3,2,3>>,<<2,2,3,1>>,<<2,2,2,2>>,<<2,3,3,2>>,<<2,1,2,1>>,<<1,1,1,1>>,<<2,3,2,1>>,<<3,2,2,2>>,<<2,1,3,1>>,<<2,2,2,1>>,<<2,3,2,2>>,<<1,3,1,1>>,<<3,2,1,2>>>>>>,
  <<<<<<2,3,2,1>>,<<1,2,3,3>>,<<2,3,2,2>>,<<3,3,1,3>>,<<2,3,2,1>>,<<1,2,2,1>>,<<1,1,3,3>>,<<3,2,2,2>>,<<3,1,3,3>>,<<3,3,1,2>>,<<2,1,2,3>>,<<1,2,1,1>>,<<2,2,1,1>>,<<3,2,2,2>>,<<2,3,2,2>>>>,
    <<<<2,1,3,1>>,<<2,3,1,3>>,<<1,2,1,3>>,<<3,1,3,1>>,<<2,2,1,3>>,<<3,1,1,1>>,<<2,2,1,2>>,<<1,3,2,1>>,<<1,3,3,1>>,<<3,2,1,1>>,<<1,1,1,1>>,<<1,2,1,1>>,<<1,2,2,3>>,<<3,1,2,3>>,<<3,2,3,3>>>>,
    <<<<3,2,2,2>>,<<2,1,3,1>>,<<2,3,3,3>>,<<1,3,1,3>>,<<2,1,1,2>>,<<1,2,3,2>>,<<3,2,3,2>>,<<2,3,2,3>>,<<1,3,3,1>>,<<1,3,2,3>>,<<2,2,3,3>>,<<1,2,2,1>>,<<2,3,2,3>>,<<1,3,1,2>>,<<1,1,2,1>>>>,
    <<<<2,3,1,2>>,<<3,1,1,3>>,<<3,1,2,2>>,<<2,2,2,3>>,<<1,1,1,3>>,<<2,2,2,2>>,<<3,3,1,1>>,<<2,1,3,1>>,<<3,2,2,2>>,<<1,3,3,1>>,<<1,3,2,1>>,<<1,3,3,2>>,<<2,1,2,3>>,<<2,3,1,3>>,<<2,3,2,3>>>>,
    <<<<2,3,1,3>>,<<3,1,3,3>>,<<1,3,1,3>>,<<3,2,2,2>>,<<2,1,2,1>>,<<3,2,3,2>>,<<1,1,1,3>>,<<2,2,1,2>>,<<3,1,1,1>>,<<1,2,3,1>>,<<2,1,3,1>>,<<1,1,1,1>>,<<3,1,2,2>>,<<1,2,3,2>>,<<2,1,1,1>>>>,
    <<<<2,1,1,3>>,<<1,2,1,1>>,<<3,3,2,3>>,<<1,3,1,1>>,<<1,1,3,1>>,<<2,1,2,2>>,<<3,3,1,1>>,<<2,3,1,3>>,<<2,2,1,2>>,<<2,1,1,2>>,<<3,2,1,3>>,<<1,1,1,3>>,<<2,3,1,2>>,<<1,3,1,1>>,<<2,3,2,2>>>>,
    <<<<2,1,1,3>>,<<3,1,3,2>>,<<1,2,1,2>>,<<3,2,3,2>>,<<1,2,3,3>>,<<3,3,1,3>>,<<1,1,3,2>>,<<3,2,1,2>>,<<3,1,2,2>>,<<1,1,2,3>>,<<3,2,2,1>>,<<2,2,1,2>>,<<3,1,3,2>>,<<3,2,3,1>>,<<2,2,2,1>>>>,
    <<<<3,2,1,3>>,<<3,1,2,2>>,<<3,3,3,2>>,<<2,2,3,2>>,<<1,1,3,1>>,<<2,1,3,3>>,<<2,2,2,1>>,<<3,2,3,1>>,<<3,3,3,3>>,<<1,3,1,1>>,<<3,1,3,2>>,<<1,1,3,1>>,<<1,3,1,1>>,<<3,3,3,3>>,<<2,3,1,2>>>>,
    <<<<3,1,2,1>>,<<3,3,1,1>>,<<2,1,3,3>>,<<2,3,2,2>>,<<2,3,1,2>>,<<2,3,3,1>>,<<1,3,2,3>>,<<2,1,3,1>>,<<3,2,1,2>>,<<2,3,3,3>>,<<2,3,1,1>>,<<2,1,1,2>>,<<2,3,2,3>>,<<1,2,1,1>>,<<1,2,3,2>>>>,
    <<<<2,1,3,3>>,<<1,3,3,3>>,<<1,3,3,2>>,<<1,2,2,1>>,<<2,1,2,2>>,<<2,2,2,1>>,<<1,1,1,2>>,<<3,1,2,2>>,<<1,1,1,3>>,<<1,2,1,3>>,<<2,1,1,2>>,<<3,2,3,2>>,<<2,1,1,3>>,<<1,2,3,1>>,<<1,3,2,1>>>>,
    <<<<2,3,2,1>>,<<1,1,2,2>>,<<2,1,1,1>>,<<1,1,3,2>>,<<1,2,2,1>>,<<1,1,3,3>>,<<3,1,2,3>>,<<1,1,1,1>>,<<1,1,3,1>>,<<3,1,1,3>>,<<3,3,1,3>>,<<2,1,2,2>>,<<2,1,1,3>>,<<3,2,3,3>>,<<2,1,1,1>>>>,
    <<<<1,3,1,3>>,<<2,2,3,3>>,<<3,3,1,3>>,<<2,3,3,2>>,<<2,3,2,2>>,<<3,2,1,2>>,<<3,2,3,2>>,<<3,1,1,2>>,<<2,3,2,2>>,<<3,2,1,3>>,<<1,1,2,2>>,<<1,1,2,2>>,<<1,3,3,3>>,<<3,2,1,1>>,<<1,2,3,3>>>>,
    <<<<2,2,1,1>>,<<3,1,3,3>>,<<3,1,1,1>>,<<2,3,2,2>>,<<2,1,3,3>>,<<3,3,2,1>>,<<2,3,2,2>>,<<1,3,2,1>>,<<2,2,2,2>>,<<1,1,3,2>>,<<2,1,1,2>>,<<1,1,1,2>>,<<1,3,3,3>>,<<1,2,2,1>>,<<2,3,1,3>>>>,
    <<<<1,3,3,2>>,<<3,1,3,1>>,<<2,3,2,1>>,<<1,2,3,1>>,<<1,1,3,3>>,<<3,3,3,1>>,<<1,1,2,3>>,<<2,3,2,1>>,<<3,3,2,2>>,<<2,1,1,2>>,<<1,2,1,1>>,<<3,2,3,2>>,<<3,2,2,3>>,<<2,3,3,3>>,<<1,3,3,3>>>>,
    <<<<3,3,1,3>>,<<2,3,3,1>>,<<2,3,3,2>>,<<2,1,2,3>>,<<3,3,3,2>>,<<3,1,3,3>>,<<3,3,3,2>>,<<1,1,3,2>>,<<1,2,1,3>>,<<2,1,3,3>>,<<1,2,1,1>>,<<3,1,2,3>>,<<2,3,1,2>>,<<3,1,2,1>>,<<1,2,1,1>>>>>>,
  <<<<<<2,3,2,2>>,<<2,3,1,1>>,<<2,1,3,1>>,<<3,1,3,3>>,<<2,2,3,1>>,<<1,3,1,2>>,<<1,1,3,1>>,<<2,3,1,3>>,<<3,1,2,2>>,<<3,1,3,2>>,<<2,2,2,3>>,<<1,3,2,1>>,<<2,3,2,1>>,<<2,1,2,1>>,<<2,3,3,2>>>>,
    <<<<3,2,1,3>>,<<3,1,3,2>>,<<1,2,1,1>>,<<3,3,2,2>>,<<1,2,1,1>>,<<1,1,1,1>>,<<3,3,1,3>>,<<1,2,3,1>>,<<2,2,1,3>>,<<2,2,3,2>>,<<2,3,1,1>>,<<3,3,3,3>>,<<3,2,2,2>>,<<2,1,2,1>>,<<2,2,2,2>>>>,
    <<<<3,3,2,3>>,<<2,1,1,1>>,<<3,1,3,1>>,<<3,1,3,2>>,<<3,1,3,3>>,<<2,2,2,3>>,<<2,2,1,3>>,<<2,3,3,2>>,<<2,1,3,1>>,<<2,3,2,2>>,<<1,1,1,1>>,<<2,2,1,2>>,<<1,3,2,2>>,<<1,1,2,3>>,<<1,3,2,1>>>>,
    <<<<1,3,1,2>>,<<2,3,3,2>>,<<2,2,2,3>>,<<3,2,1,3>>,<<1,1,1,3>>,<<1,2,2,1>>,<<3,1,3,1>>,<<3,2,2,2>>,<<1,1,1,3>>,<<1,2,3,2>>,<<1,1,1,1>>,<<3,3,1,3>>,<<2,1,3,2>>,<<3,3,1,1>>,<<2,2,3,2>>>>,
    <<<<1,2,2,2>>,<<3,3,2,3>>,<<1,2,2,3>>,<<1,1,1,2>>,<<2,1,1,2>>,<<2,3,1,2>>,<<3,2,1,3>>,<<1,1,3,1>>,<<1,2,1,1>>,<<2,3,1,2>>,<<2,2,3,2>>,<<1,2,3,2>>,<<3,3,1,2>>,<<1,3,3,2>>,<<3,2,2,3>>>>,
    <<<<2,1,3,3>>,<<1,2,3,1>>,<<1,3,2,2>>,<<1,3,1,2>>,<<3,2,2,2>>,<<2,3,1,2>>,<<1,1,3,2>>,<<1,3,2,3>>,<<2,3,3,2>>,<<1,3,1,2>>,<<3,1,3,1>>,<<1,2,3,1>>,<<3,2,3,2>>,<<1,3,3,2>>,<<3,3,2,1>>>>,
    <<<<2,2,2,2>>,<<2,2,2,3>>,<<2,3,1,3>>,<<1,1,2,1>>,<<3,3,2,2>>,<<3,2,2,2>>,<<1,2,3,3>>,<<1,2,3,1>>,<<3,3,1,3>>,<<3,3,3,1>>,<<1,3,1,3>>,<<1,3,2,1>>,<<2,1,2,1>>,<<3,3,3,3>>,<<2,1,2,1>>>>,
    <<<<1,2,2,1>>,<<1,3,3,2>>,<<1,2,2,2>>,<<1,3,3,2>>,<<3,2,2,2>>,<<1,1,2,2>>,<<3,1,3,3>>,<<2,3,1,3>>,<<1,3,1,2>>,<<3,2,2,2>>,<<2,1,1,3>>,<<2,3,3,2>>,<<2,3,3,1>>,<<1,1,2,1>>,<<3,2,1,1>>>>,
    <<<<1,2,1,2>>,<<2,1,1,1>>,<<2,2,3,3>>,<<2,1,2,2>>,<<2,3,3,2>>,<<1,3,1,1>>,<<1,3,2,3>>,<<2,3,3,2>>,<<3,3,1,1>>,<<3,1,2,2>>,<<2,2,1,2>>,<<2,1,1,1>>,<<2,1,3,1>>,<<2,3,2,2>>,<<3,2,1,1>>>>,
    <<<<3,1,3,1>>,<<2,2,2,2>>,<<3,1,1,1>>,<<2,3,2,3>>,<<3,2,3,1>>,<<3,2,3,2>>,<<3,3,3,1>>,<<2,1,1,1>>,<<3,2,2,2>>,<<2,1,3,3>>,<<1,2,2,1>>,<<3,3,1,3>>,<<3,3,3,2>>,<<1,3,1,2>>,<<1,1,2,1>>>>,
    <<<<3,2,1,2>>,<<2,2,1,1>>,<<3,1,2,2>>,<<3,2,3,3>>,<<3,2,2,1>>,<<3,2,3,1>>,<<1,2,1,1>>,<<2,3,3,3>>,<<3,3,3,3>>,<<1,1,1,2>>,<<1,2,3,2>>,<<1,2,1,1>>,<<1,1,1,2>>,<<3,3,2,2>>,<<1,2,1,3>>>>,
    <<<<3,1,2,2>>,<<3,2,2,1>>,<<2,2,2,2>>,<<1,1,2,3>>,<<3,1,1,1>>,<<2,2,2,3>>,<<1,3,3,2>>,<<2,1,3,2>>,<<1,2,2,2>>,<<1,2,2,3>>,<<2,1,3,1>>,<<3,3,2,1>>,<<2,3,2,2>>,<<1,1,2,1>>,<<3,3,2,3>>>>,
    <<<<3,3,1,3>>,<<1,3,3,3>>,<<1,2,1,3>>,<<3,2,3,1>>,<<3,1,2,2>>,<<2,3,1,3>>,<<1,1,2,3>>,<<2,3,2,3>>,<<3,1,3,2>>,<<2,2,1,2>>,<<1,3,1,3>>,<<3,2,1,1>>,<<3,3,1,1>>,<<3,1,1,1>>,<<1,2,2,3>>>>,
    <<<<1,2,3,1>>,<<2,3,2,1>>,<<1,1,1,3>>,<<3,3,3,2>>,<<2,2,1,2>>,<<3,3,3,1>>,<<2,1,1,1>>,<<3,3,3,1>>,<<1,3,2,1>>,<<3,3,2,3>>,<<2,1,3,1>>,<<2,2,2,1>>,<<3,1,2,3>>,<<3,2,1,3>>,<<2,2,1,2>>>>,
    <<<<2,3,2,2>>,<<2,1,1,1>>,<<2,3,2,3>>,<<3,2,2,3>>,<<3,1,3,1>>,<<1,1,3,1>>,<<1,2,2,1>>,<<1,2,1,1>>,<<3,3,3,1>>,<<1,3,1,1>>,<<1,1,3,1>>,<<1,3,3,3>>,<<2,1,1,2>>,<<2,2,3,2>>,<<2,2,1,2>>>>>>,
  <<<<<<2,3,3,1>>,<<1,2,2,2>>,<<3,2,3,3>>,<<2,3,3,2>>,<<1,3,3,1>>,<<1,1,2,1>>,<<1,2,2,1>>,<<1,2,1,1>>,<<3,3,3,1>>,<<3,3,1,1>>,<<3,3,2,2>>,<<2,2,1,3>>,<<1,1,3,1>>,<<3,2,1,3>>,<<2,2,2,3>>>>,
    <<<<3,1,2,3>>,<<3,2,2,3>>,<<2,2,1,1>>,<<1,3,1,3>>,<<1,1,2,3>>,<<3,1,1,2>>,<<3,2,2,1>>,<<1,2,2,3>>,<<2,3,2,2>>,<<1,3,2,1>>,<<1,1,1,2>>,<<1,2,2,2>>,<<3,2,3,3>>,<<1,1,2,1>>,<<1,1,3,2>>>>,
    <<<<1,3,1,1>>,<<3,2,3,1>>,<<2,3,3,1>>,<<1,1,1,1>>,<<1,2,1,3>>,<<2,1,2,1>>,<<1,3,2,2>>,<<1,2,3,3>>,<<3,1,2,1>>,<<3,1,3,1>>,<<3,2,3,3>>,<<2,1,2,2>>,<<2,2,3,3>>,<<2,1,2,3>>,<<3,3,1,1>>>>,
    <<<<2,1,2,3>>,<<3,2,3,2>>,<<3,3,1,2>>,<<3,2,1,2>>,<<2,2,3,2>>,<<1,3,3,3>>,<<2,2,3,3>>,<<3,1,1,2>>,<<3,3,2,1>>,<<1,2,3,1>>,<<2,1,1,3>>,<<1,1,2,1>>,<<2,2,2,2>>,<<3,3,3,1>>,<<1,3,2,3>>>>,
    <<<<3,1,1,2>>,<<2,1,3,2>>,<<3,1,2,1>>,<<2,2,2,1>>,<<1,2,2,2>>,<<2,2,1,3>>,<<2,1,1,1>>,<<2,1,1,1>>,<<2,3,2,2>>,<<2,3,1,1>>,<<3,3,3,2>>,<<1,1,3,1>>,<<1,1,1,2>>,<<2,3,3,2>>,<<1,1,2,3>>>>,
    <<<<2,1,2,2>>,<<3,1,1,2>>,<<3,2,2,3>>,<<3,3,2,2>>,<<2,2,2,3>>,<<3,2,2,1>>,<<2,2,2,1>>,<<3,1,1,1>>,<<1,3,2,1>>,<<1,2,2,2>>,<<3,3,1,2>>,<<2,3,1,2>>,<<2,3,2,3>>,<<3,2,3,2>>,<<3,1,3,2>>>>,
    <<<<1,2,3,3>>,<<1,2,1,2>>,<<1,2,1,1>>,<<1,3,3,2>>,<<3,1,1,2>>,<<2,3,2,2>>,<<1,3,2,1>>,<<3,3,3,2>>,<<3,3,2,1>>,<<1,2,3,3>>,<<1,3,3,3>>,<<1,1,2,3>>,<<3,3,3,2>>,<<2,1,3,2>>,<<3,1,2,1>>>>,
    <<<<2,2,1,2>>,<<1,2,3,1>>,<<1,2,3,3>>,<<1,1,2,1>>,<<1,3,1,1>>,<<3,2,2,3>>,<<3,1,1,2>>,<<2,3,1,2>>,<<3,1,1,3>>,<<1,2,1,2>>,<<3,3,2,2>>,<<2,1,3,3>>,<<2,1,3,1>>,<<1,2,3,3>>,<<3,2,3,1>>>>,
    <<<<1,3,2,3>>,<<2,3,3,1>>,<<1,1,2,3>>,<<1,1,2,1>>,<<3,2,3,3>>,<<2,2,3,3>>,<<2,1,3,3>>,<<1,2,1,2>>,<<2,2,1,1>>,<<2,3,3,2>>,<<1,3,2,2>>,<<3,1,3,3>>,<<3,2,2,2>>,<<2,1,2,2>>,<<3,2,1,2>>>>,
    <<<<2,2,3,1>>,<<2,1,3,2>>,<<3,3,2,3>>,<<1,2,2,3>>,<<3,3,2,2>>,<<2,2,3,2>>,<<1,3,2,3>>,<<3,3,2,1>>,<<2,2,1,3>>,<<3,2,2,1>>,<<1,3,3,3>>,<<3,1,2,3>>,<<1,1,1,3>>,<<2,3,1,1>>,<<3,2,3,2>>>>,
    <<<<2,1,2,3>>,<<2,3,3,3>>,<<1,1,3,1>>,<<1,3,3,2>>,<<1,3,2,3>>,<<3,2,1,3>>,<<3,2,2,3>>,<<3,2,2,2>>,<<1,2,3,2>>,<<3,2,1,2>>,<<3,3,1,1>>,<<1,2,1,1>>,<<3,1,1,1>>,<<1,3,1,2>>,<<2,1,1,1>>>>,
    <<<<3,2,1,3>>,<<3,1,1,1>>,<<1,3,1,3>>,<<3,2,1,2>>,<<3,2,3,3>>,<<1,1,3,2>>,<<3,2,3,3>>,<<1,1,2,1>>,<<2,2,1,1>>,<<3,2,3,2>>,<<3,2,2,2>>,<<2,3,1,3>>,<<1,3,2,2>>,<<3,1,2,3>>,<<2,2,2,1>>>>,
    <<<<3,3,1,2>>,<<1,3,2,3>>,<<3,2,2,1>>,<<1,2,3,3>>,<<1,1,2,3>>,<<1,2,1,3>>,<<1,3,2,2>>,<<1,2,1,1>>,<<3,2,1,1>>,<<3,2,1,3>>,<<3,2,2,3>>,<<2,3,2,2>>,<<1,3,2,3>>,<<3,1,2,2>>,<<1,3,2,3>>>>,
    <<<<1,1,1,3>>,<<3,3,3,1>>,<<1,1,3,1>>,<<3,1,1,3>>,<<1,3,3,3>>,<<1,3,1,3>>,<<1,1,3,1>>,<<1,1,3,2>>,<<3,2,2,1>>,<<3,2,1,1>>,<<2,1,3,2>>,<<3,1,1,2>>,<<3,1,3,2>>,<<1,1,3,1>>,<<2,1,3,3>>>>,
    <<<<3,2,2,2>>,<<2,1,1,1>>,<<1,3,3,3>>,<<1,1,1,3>>,<<1,2,1,1>>,<<1,1,3,3>>,<<3,1,3,3>>,<<2,1,2,2>>,<<1,1,1,1>>,<<3,3,3,1>>,<<3,1,2,3>>,<<3,1,2,3>>,<<3,3,3,3>>,<<2,1,2,3>>,<<1,3,2,3>>>>>>
  >>

\* floor(seedRandom(gx, gy, worldSeed) * 16)
SeedRandom16(gx, gy, worldSeed) ==
  Rand16Table[worldSeed][gy + TableRadius + 1][gx + TableRadius + 1]

\* tile key `${gx},${gy}`
Key(gx, gy) == <<gx, gy>>

Has(tiles, gx, gy) == Key(gx, gy) \in DOMAIN tiles

NULL == "null"

\* a filter that compares every edge, also where nothing is asked of it
GetValidTileTypesAllEdges(constraints) ==
  SelectSeq(TileOrder, LAMBDA t :
    /\ TILE_DEFINITIONS[t].edges.north = constraints.north
    /\ TILE_DEFINITIONS[t].edges.east  = constraints.east
    /\ TILE_DEFINITIONS[t].edges.south = constraints.south
    /\ TILE_DEFINITIONS[t].edges.west  = constraints.west)
\* getValidTileTypes: the catalog entries matching every non-null constraint,
\* in catalog order
GetValidTileTypes(constraints) ==
  SelectSeq(TileOrder, LAMBDA t :
    /\ (constraints.north # NULL => TILE_DEFINITIONS[t].edges.north = constraints.north)
    /\ (constraints.east  # NULL => TILE_DEFINITIONS[t].edges.east  = constraints.east)
    /\ (constraints.south # NULL => TILE_DEFINITIONS[t].edges.south = constraints.south)
    /\ (constraints.west  # NULL => TILE_DEFINITIONS[t].edges.west  = constraints.west))

\* the four candidate building areas of generateBuildings
Quadrants ==
  << [x |-> BUILDING_MARGIN, y |-> BUILDING_MARGIN,
      w |-> TILE_SIZE \div 2 - BUILDING_MARGIN * 2, h |-> TILE_SIZE \div 2 - BUILDING_MARGIN * 2],
     [x |-> TILE_SIZE \div 2 + BUILDING_MARGIN, y |-> BUILDING_MARGIN,
      w |-> TILE_SIZE \div 2 - BUILDING_MARGIN * 2, h |-> TILE_SIZE \div 2 - BUILDING_MARGIN * 2],
     [x |-> BUILDING_MARGIN, y |-> TILE_SIZE \div 2 + BUILDING_MARGIN,
      w |-> TILE_SIZE \div 2 - BUILDING_MARGIN * 2, h |-> TILE_SIZE \div 2 - BUILDING_MARGIN * 2],
     [x |-> TILE_SIZE \div 2 + BUILDING_MARGIN, y |-> TILE_SIZE \div 2 + BUILDING_MARGIN,
      w |-> TILE_SIZE \div 2 - BUILDING_MARGIN * 2, h |-> TILE_SIZE \div 2 - BUILDING_MARGIN * 2] >>

OverlapsRoad(quad, zones) ==
  \E i \in 1..Len(zones) :
    ~ ( \/ quad.x + quad.w < zones[i].x
        \/ quad.x > zones[i].x + zones[i].width
        \/ quad.y + quad.h < zones[i].y
        \/ quad.y > zones[i].y + zones[i].height )

\* generateBuildings: for every quadrant free of road, in order, the number of
\* buildings placed there (1 + floor(rand() * 3)); a footprint's coordinates are
\* functions of the same draws and are not carried.  Result: a sequence of
\* [quadrant, count] records.
GenerateBuildings(tileType, gx, gy, worldSeed) ==
  LET zones == TILE_DEFINITIONS[tileType].roadZones
      free  == SelectSeq(<<1, 2, 3, 4>>, LAMBDA q : ~OverlapsRoad(Quadrants[q], zones))
      draws == BuildingCountTable[worldSeed][gy + TableRadius + 1][gx + TableRadius + 1]
  IN  [ j \in 1..Len(free) |-> [quadrant |-> free[j], count |-> draws[j]] ]

MakeTile(type, gx, gy, worldSeed) ==
  [ type      |-> type,
    edges     |-> TILE_DEFINITIONS[type].edges,
    roadZones |-> TILE_DEFINITIONS[type].roadZones,
    buildings |-> GenerateBuildings(type, gx, gy, worldSeed) ]

\* generateTile.  validTypes.length is 2^k (k = number of null constraints) or 1
\* after the fallback, so floor(rand * length) = floor(floor(rand*16) * length / 16).
GenerateTile(gx, gy, worldSeed, loadedTiles) ==
  IF gx = 0 /\ gy = 0
  THEN MakeTile("CROSSROADS", gx, gy, worldSeed)
  ELSE
    LET constraints ==
          [ north |-> IF Has(loadedTiles, gx, gy - 1) THEN loadedTiles[Key(gx, gy - 1)].edges.south ELSE NULL,
            east  |-> IF Has(loadedTiles, gx + 1, gy) THEN loadedTiles[Key(gx + 1, gy)].edges.west  ELSE NULL,
            south |-> IF Has(loadedTiles, gx, gy + 1) THEN loadedTiles[Key(gx, gy + 1)].edges.north ELSE NULL,
            west  |-> IF Has(loadedTiles, gx - 1, gy) THEN loadedTiles[Key(gx - 1, gy)].edges.east  ELSE NULL ]
        found == GetValidTileTypes(constraints)
        validTypes == IF Len(found) = 0 THEN <<"CROSSROADS">> ELSE found
        selectedType == validTypes[(SeedRandom16(gx, gy, worldSeed) * Len(validTypes)) \div 16 + 1]
    IN  MakeTile(selectedType, gx, gy, worldSeed)

\* loadedTiles.set(key, tile)
SetTile(tiles, gx, gy, tile) ==
  [ k \in DOMAIN tiles \cup {Key(gx, gy)} |-> IF k = Key(gx, gy) THEN tile ELSE tiles[k] ]

\* the nested dy/dx loops of createUrbanWorldState and updateLoadedTiles: the
\* i-th cell visited (i = 0 .. (2R+1)^2 - 1), row by row
LoadCell(cx, cy, i) ==
  [ gx |-> cx - LOAD_RADIUS + (i % (2 * LOAD_RADIUS + 1)),
    gy |-> cy - LOAD_RADIUS + (i \div (2 * LOAD_RADIUS + 1)) ]

RECURSIVE LoadTilesFrom(_, _, _, _, _)
LoadTilesFrom(tiles, cx, cy, worldSeed, i) ==
  IF i >= (2 * LOAD_RADIUS + 1) * (2 * LOAD_RADIUS + 1) THEN tiles
  ELSE LET c == LoadCell(cx, cy, i)
       IN  IF Has(tiles, c.gx, c.gy)
           THEN LoadTilesFrom(tiles, cx, cy, worldSeed, i + 1)
           ELSE LoadTilesFrom(SetTile(tiles, c.gx, c.gy, GenerateTile(c.gx, c.gy, worldSeed, tiles)),
                              cx, cy, worldSeed, i + 1)

EmptyMap == [ k \in {} |-> 0 ]

\* createUrbanWorldState, for the world seed Date.now() returned
CreateUrbanWorldState(worldSeed) ==
  [ loadedTiles   |-> LoadTilesFrom(EmptyMap, 0, 0, worldSeed, 0),
    worldSeed     |-> worldSeed,
    playerGridPos |-> [gx |-> 0, gy |-> 0] ]

\* updateLoadedTiles without the unloading of distant tiles
UpdateLoadedTilesKeepingAll(playerX, playerY, state) ==
  LET newGx == FloorDiv(playerX, TILE_SIZE)
      newGy == FloorDiv(playerY, TILE_SIZE)
  IN  IF newGx # state.playerGridPos.gx \/ newGy # state.playerGridPos.gy
      THEN [ loadedTiles   |-> LoadTilesFrom(state.loadedTiles, newGx, newGy, state.worldSeed, 0),
             worldSeed     |-> state.worldSeed,
             playerGridPos |-> [gx |-> newGx, gy |-> newGy] ]
      ELSE state
\* updateLoadedTiles(playerX, playerY, state): the state it leaves
UpdateLoadedTiles(playerX, playerY, state) ==
  LET newGx == FloorDiv(playerX, TILE_SIZE)
      newGy == FloorDiv(playerY, TILE_SIZE)
  IN  IF newGx # state.playerGridPos.gx \/ newGy # state.playerGridPos.gy
      THEN LET keep == { k \in DOMAIN state.loadedTiles :
                           ~ ( \/ Abs(k[1] - newGx) > LOAD_RADIUS + 1
                               \/ Abs(k[2] - newGy) > LOAD_RADIUS + 1 ) }
               kept == [ k \in keep |-> state.loadedTiles[k] ]
           IN  [ loadedTiles   |-> LoadTilesFrom(kept, newGx, newGy, state.worldSeed, 0),
                 worldSeed     |-> state.worldSeed,
                 playerGridPos |-> [gx |-> newGx, gy |-> newGy] ]
      ELSE state

\* an answer that leaves the rectangles' border lines out
IsPositionOnRoadInterior(worldX, worldY, state) ==
  LET gx == FloorDiv(worldX, TILE_SIZE)
      gy == FloorDiv(worldY, TILE_SIZE)
      localX == worldX - gx * TILE_SIZE
      localY == worldY - gy * TILE_SIZE
  IN  /\ Has(state.loadedTiles, gx, gy)
      /\ \E i \in 1..Len(state.loadedTiles[Key(gx, gy)].roadZones) :
           LET zone == state.loadedTiles[Key(gx, gy)].roadZones[i]
           IN  /\ localX > zone.x /\ localX < zone.x + zone.width
               /\ localY > zone.y /\ localY < zone.y + zone.height
\* isPositionOnRoad(worldX, worldY, state)
IsPositionOnRoad(worldX, worldY, state) ==
  LET gx == FloorDiv(worldX, TILE_SIZE)
      gy == FloorDiv(worldY, TILE_SIZE)
      localX == worldX - gx * TILE_SIZE
      localY == worldY - gy * TILE_SIZE
  IN  /\ Has(state.loadedTiles, gx, gy)
      /\ \E i \in 1..Len(state.loadedTiles[Key(gx, gy)].roadZones) :
           LET zone == state.loadedTiles[Key(gx, gy)].roadZones[i]
           IN  /\ localX >= zone.x /\ localX <= zone.x + zone.width
               /\ localY >= zone.y /\ localY <= zone.y + zone.height


(***************************************************************************)
(* FIXED-POINT ARITHMETIC                                                  *)
(* A real quantity q of the program (speed, angle in radians, weight,      *)
(* grip, angle in degrees, tuning knob) is held as the integer q * SC,     *)
(* products and quotients rounding toward zero.  Mass is held in kg.       *)
(***************************************************************************)
SC == 10 ^ 3

Mul(a, b) == TruncDiv(a * b, SC)
Div(a, b) == TruncDiv(a * SC, b)

\* Math.sqrt on integers: the largest r with r * r <= n
RECURSIVE SqrtBetween(_, _, _)
SqrtBetween(n, lo, hi) ==
  IF hi - lo <= 1 THEN lo
  ELSE LET mid == (lo + hi) \div 2
       IN  IF mid * mid <= n THEN SqrtBetween(n, mid, hi) ELSE SqrtBetween(n, lo, mid)

Sqrt(n) == IF n <= 0 THEN 0 ELSE SqrtBetween(n, 0, 46341)

\* Math.sqrt(v.x ** 2 + v.y ** 2) of a scaled vector
Magnitude(v) == Sqrt(v.x * v.x + v.y * v.y)

\* Math.PI
PI == 3142
HALF_PI == PI \div 2
TWO_PI == 2 * PI

\* sin on [0, pi/2] (scaled radians in, scaled value out): the Taylor series
\* through x^9, at most 2/1000 from Math.sin
SinQ(x) ==
  LET x2 == (x * x) \div 1000
      t3 == (x * x2) \div 6000
      t5 == (t3 * x2) \div 20000
      t7 == (t5 * x2) \div 42000
      t9 == (t7 * x2) \div 72000
  IN  Min(1000, x - t3 + t5 - t7 + t9)

Sin(a) ==
  LET r == a % TWO_PI
  IN  IF r <= HALF_PI THEN SinQ(r)
      ELSE IF r <= PI THEN SinQ(PI - r)
      ELSE IF r <= PI + HALF_PI THEN -SinQ(r - PI)
      ELSE -SinQ(TWO_PI - r)

Cos(a) == Sin(a + HALF_PI)

\* atan on [0, 1]: an odd polynomial, at most 2/1000 from Math.atan
AtanQ(z) ==
  LET z2 == (z * z) \div 1000
      p5 == 53 + TruncDiv(-12 * z2, 1000)
      p4 == -116 + TruncDiv(p5 * z2, 1000)
      p3 == 194 + TruncDiv(p4 * z2, 1000)
      p2 == -333 + TruncDiv(p3 * z2, 1000)
      p1 == 1000 + TruncDiv(p2 * z2, 1000)
  IN  TruncDiv(z * p1, 1000)

\* Math.atan2(y, x), result in (-pi, pi]
Atan2(y, x) ==
  LET ax == Abs(x)
      ay == Abs(y)
      base == IF ax = 0 /\ ay = 0 THEN 0
              ELSE IF ay <= ax THEN AtanQ((ay * 1000) \div ax)
              ELSE HALF_PI - AtanQ((ax * 1000) \div ay)
      inHalf == IF x >= 0 THEN base ELSE PI - base
  IN  IF y >= 0 THEN inHalf ELSE -inHalf

\* degrees <-> radians (both scaled)
DegToRad(d) == TruncDiv(d * PI, 180 * SC)
RadToDeg(r) == TruncDiv(r * 180 * SC, PI)

(***************************************************************************)
(* VEHICLE DYNAMICS: the physics phase of loop()                           *)
(***************************************************************************)
\* tuning.f || d : the default replaces an absent field and a zero
OrDefault(T, f, d) == IF f \in DOMAIN T /\ T[f] # 0 THEN T[f] ELSE d

\* tuning.f !== undefined ? tuning.f : d
IfDefined(T, f, d) == IF f \in DOMAIN T THEN T[f] ELSE d

\* what reading a field the record lacks gives, and what arithmetic on it gives
Undefined == "undefined"

NaN == "NaN"

\* tuning.f, read with no fallback
Read(T, f) == IF f \in DOMAIN T THEN T[f] ELSE Undefined

\* tuning.brakePower * 2, the fallback of brakeForce
TwiceBrakePower(T) == IF "brakePower" \in DOMAIN T THEN T.brakePower * 2 ELSE NaN

\* the constants the tick derives from the tuning prop
Params(T) ==
  [ mass                |-> OrDefault(T, "mass", 1100),
    inertiaMultiplier   |-> OrDefault(T, "inertiaMultiplier", 1200),
    weightDistribution  |-> OrDefault(T, "weightDistribution", 500),
    weightTransferAccel |-> OrDefault(T, "weightTransferAccel", 400),
    weightTransferBrake |-> OrDefault(T, "weightTransferBrake", 500),
    angularDamping      |-> OrDefault(T, "angularDamping", 950),
    angularVelocityMax  |-> OrDefault(T, "angularVelocityMax", 150),
    tractionPeak        |-> OrDefault(T, "tractionPeak", 1000),
    tractionSliding     |-> OrDefault(T, "tractionSliding", 700),
    slipAngleOptimal    |-> OrDefault(T, "slipAngleOptimal", 10000),
    slipAnglePeak       |-> OrDefault(T, "slipAnglePeak", 25000),
    tractionFalloff     |-> OrDefault(T, "tractionFalloff", 1500),
    tractionBiasFront   |-> OrDefault(T, "tractionBiasFront", 500),
    tractionLossMult    |-> OrDefault(T, "tractionLossMult", 1000),
    lowSpeedTractionLoss |-> OrDefault(T, "lowSpeedTractionLoss", 0),
    driveBiasFront      |-> IfDefined(T, "driveBiasFront", 0),
    driveInertia        |-> OrDefault(T, "driveInertia", 900),
    engineBraking       |-> OrDefault(T, "engineBraking", 300),
    brakeForce          |-> OrDefault(T, "brakeForce", TwiceBrakePower(T)),
    brakeBiasFront      |-> OrDefault(T, "brakeBiasFront", 550),
    handbrakePower      |-> OrDefault(T, "handbrakePower", 800),
    handbrakeSlipAngle  |-> OrDefault(T, "handbrakeSlipAngle", 35000),
    brakeLockupRotation |-> OrDefault(T, "brakeLockupRotation", 500),
    steeringLock        |-> OrDefault(T, "steeringLock", 45000),
    steeringSpeedScale  |-> IfDefined(T, "steeringSpeedScale", 400),
    steeringLinearity   |-> OrDefault(T, "steeringLinearity", 1000),
    counterSteerAssist  |-> OrDefault(T, "counterSteerAssist", 0),
    stabilityControl    |-> OrDefault(T, "stabilityControl", 0),
    tractionControl     |-> OrDefault(T, "tractionControl", 0),
    absEnabled          |-> IF "absEnabled" \in DOMAIN T THEN T.absEnabled ELSE FALSE,
    driftAssist         |-> OrDefault(T, "driftAssist", 0),
    \* legacy fields, read from the prop where they are used
    maxSpeed            |-> Read(T, "maxSpeed"),
    acceleration        |-> Read(T, "acceleration"),
    reversePower        |-> Read(T, "reversePower"),
    friction            |-> Read(T, "friction"),
    drag                |-> Read(T, "drag"),
    offRoadFriction     |-> Read(T, "offRoadFriction"),
    steerSpeed          |-> Read(T, "steerSpeed"),
    steerReturn         |-> Read(T, "steerReturn") ]

\* Math.pow(t, e) for t in [0, 1] and e a multiple of 0.5 (the exponents the
\* model's tuning records use): t^(2k) by products, t^0.5 by Math.sqrt
RECURSIVE PowInt(_, _)
PowInt(t, n) == IF n = 0 THEN SC ELSE Mul(t, PowInt(t, n - 1))

Pow(t, e) ==
  LET whole == e \div SC
      half  == (e % SC) >= 500
  IN  IF half THEN Mul(PowInt(t, whole), Sqrt(t * SC)) ELSE PowInt(t, whole)

\* a grip curve that keeps climbing along the build-up line past the optimum
CalculateTireGripNoPlateau(slipAngleDeg, P) ==
  Mul(P.tractionPeak, Div(Abs(slipAngleDeg), P.slipAngleOptimal))

\* calculateTireGrip(slipAngleDeg) under the parameters P
CalculateTireGrip(slipAngleDeg, P) ==
  LET absSlip == Abs(slipAngleDeg)
  IN  IF absSlip <= P.slipAngleOptimal
      THEN Mul(P.tractionPeak, Div(absSlip, P.slipAngleOptimal))
      ELSE IF absSlip <= P.slipAnglePeak
      THEN P.tractionPeak
      ELSE LET excess == absSlip - P.slipAnglePeak
               falloffRange == 90 * SC - P.slipAnglePeak
               t == Min(SC, Div(excess, falloffRange))
               falloffCurve == Pow(t, P.tractionFalloff)
           IN  P.tractionPeak - Mul(P.tractionPeak - P.tractionSliding, falloffCurve)

\* the target steering angle of the frame: the input through the linearity
\* curve times the speed-sensitive lock, then the two assists
TargetSteer(c, in, P) ==
  LET rawSteerInput == IF in.right THEN 1 ELSE IF in.left THEN -1 ELSE 0
      \* Math.sign(raw) * Math.pow(|raw|, steeringLinearity), raw in {-1, 0, 1}
      curvedInput == rawSteerInput * SC
      currentSpeedForSteering == Magnitude(c.velocity)
      speedFactor == SC - Mul(Div(currentSpeedForSteering, P.maxSpeed), P.steeringSpeedScale)
      effectiveMaxAngle == Mul(DegToRad(P.steeringLock), Max(200, speedFactor))
      target0 == Mul(curvedInput, effectiveMaxAngle)
      target1 ==
        IF P.counterSteerAssist > 0 /\ Abs(c.slipAngle) > 15 * SC
        THEN LET driftDirection == Sign(c.angularVelocity)
                 counterForce == -driftDirection * Mul(P.counterSteerAssist, TruncDiv(Abs(c.slipAngle), 90))
             IN  target0 + Mul(counterForce, effectiveMaxAngle)
        ELSE target0
      targetSteer ==
        IF P.driftAssist > 0 /\ Abs(c.slipAngle) > 20 * SC /\ Abs(c.slipAngle) - 30 * SC > 0
        THEN target1 - Sign(c.slipAngle) * TruncDiv((Abs(c.slipAngle) - 30 * SC) * P.driftAssist, 100 * SC)
        ELSE target1
  IN  targetSteer

\* a steering stage that always takes the whole step, never the target itself
SteeringWholeStep(c, in, P) ==
  LET targetSteer == TargetSteer(c, in, P)
      steerRate == IF targetSteer # 0 THEN P.steerSpeed ELSE P.steerReturn
  IN  IF targetSteer # 0 \/ c.steeringAngle # 0
      THEN IF targetSteer > c.steeringAngle
           THEN [c EXCEPT !.steeringAngle = c.steeringAngle + steerRate]
           ELSE [c EXCEPT !.steeringAngle = c.steeringAngle - steerRate]
      ELSE c

\* 1. steering: the wheel angle chases the target angle
Steering(c, in, P) ==
  LET targetSteer == TargetSteer(c, in, P)
      steerRate == IF targetSteer # 0 THEN P.steerSpeed ELSE P.steerReturn
  IN  IF targetSteer # 0 \/ c.steeringAngle # 0
      THEN IF Abs(targetSteer - c.steeringAngle) < steerRate
           THEN [c EXCEPT !.steeringAngle = targetSteer]
           ELSE IF targetSteer > c.steeringAngle
           THEN [c EXCEPT !.steeringAngle = c.steeringAngle + steerRate]
           ELSE [c EXCEPT !.steeringAngle = c.steeringAngle - steerRate]
      ELSE c

GRAVITY == 9810
ACCEL_SCALE == 400
BRAKE_FORCE_SCALE == 150
REVERSE_SCALE == 300
BRAKE_SCALE == 50
HANDBRAKE_SCALE == 10

\* weights are held in millionths, so that the transfer (some 1e-5) shows
WSC == SC * SC

\* weightTransfer * (force / gravity) * 0.01, in millionths
Transfer(weightTransfer, force) == TruncDiv(weightTransfer * force, TruncDiv(GRAVITY, 10))

\* 2. weight transfer: the rear fraction is derived from the front fraction
RearWeightAccel(frontWeight, P) == Min(800 * SC, WSC - frontWeight)
\* a rear fraction taken from the static balance instead of the front fraction
RearWeightBrakeFromStatic(frontWeight, P) == Max(200 * SC, WSC - P.weightDistribution * SC)
RearWeightBrake(frontWeight, P) == Max(200 * SC, WSC - frontWeight)

WeightTransfer(c, in, P) ==
  LET weightDistribution == P.weightDistribution * SC
      static == [c EXCEPT !.frontWeight = weightDistribution,
                          !.rearWeight = WSC - weightDistribution]
      accel ==
        IF in.up /\ ~in.down
        THEN LET accelForce == TruncDiv(P.acceleration * ACCEL_SCALE, P.mass)
                 transfer == Transfer(P.weightTransferAccel, accelForce)
                 fw == Max(200 * SC, weightDistribution - transfer)
             IN  [static EXCEPT !.frontWeight = fw, !.rearWeight = RearWeightAccel(fw, P)]
        ELSE static
  IN  IF in.down
      THEN LET scaledBrakeForce == TruncDiv(P.brakeForce * BRAKE_FORCE_SCALE, P.mass)
               transfer == Transfer(P.weightTransferBrake, scaledBrakeForce)
               fw == Min(800 * SC, weightDistribution + transfer)
           IN  [accel EXCEPT !.frontWeight = fw, !.rearWeight = RearWeightBrake(fw, P)]
      ELSE accel

\* car.velocity.x * Math.cos(car.angle) + car.velocity.y * Math.sin(car.angle)
ForwardVel(c) == Mul(c.velocity.x, Cos(c.angle)) + Mul(c.velocity.y, Sin(c.angle))

\* velocity += (cos(angle), sin(angle)) * a
Accelerate(c, a) ==
  [c EXCEPT !.velocity = [x |-> c.velocity.x + Mul(Cos(c.angle), a),
                          y |-> c.velocity.y + Mul(Sin(c.angle), a)]]

\* 3. drivetrain: whether the car brakes, and the force at each axle
DriveForces(c, in, P) ==
  LET movingForward == ForwardVel(c) > 100
      isBraking == in.down /\ movingForward
      reversePower == P.reversePower * REVERSE_SCALE
      stabilityIntervention ==
        IF P.stabilityControl > 0 /\ Abs(c.angularVelocity) > 80
        THEN SC - Min(SC, Mul((Abs(c.angularVelocity) - 80) * 10, P.stabilityControl))
        ELSE SC
      power0 == Mul(P.acceleration * ACCEL_SCALE, stabilityIntervention)
      avgGrip == TruncDiv(c.frontGrip + c.rearGrip, 2)
      totalPower ==
        IF P.tractionControl > 0 /\ avgGrip < 300
        THEN Mul(power0, SC - Mul(300 - avgGrip, P.tractionControl))
        ELSE power0
      coastingDecel == -P.engineBraking * BRAKE_SCALE
  IN  IF in.up /\ ~isBraking
      THEN [isBraking |-> isBraking,
            front |-> Mul(totalPower, P.driveBiasFront),
            rear  |-> Mul(totalPower, SC - P.driveBiasFront)]
      ELSE IF ~in.down /\ ~isBraking
      THEN IF ForwardVel(c) > 500
           THEN [isBraking |-> isBraking,
                 front |-> Mul(coastingDecel, P.driveBiasFront),
                 rear  |-> Mul(coastingDecel, SC - P.driveBiasFront)]
           ELSE [isBraking |-> isBraking, front |-> 0, rear |-> 0]
      ELSE IF in.down /\ ~movingForward
      THEN [isBraking |-> isBraking,
            front |-> Mul(-reversePower, P.driveBiasFront),
            rear  |-> Mul(-reversePower, SC - P.driveBiasFront)]
      ELSE [isBraking |-> isBraking, front |-> 0, rear |-> 0]

\* 4. drive forces move the car; wheelspin bends steering (front) or adds
\*    rotation (rear).  rnd is the sign Math.random() picks for a centred wheel.
ApplyDriveForces(c, f, P, rnd) ==
  LET tempFrontGrip == c.frontGrip
      tempRearGrip == c.rearGrip
      currentSpeedCheck == Magnitude(c.velocity)
      frontAccel == TruncDiv(f.front, P.mass)
      rearAccel == TruncDiv(f.rear, P.mass)
      frontSpin == Max(0, frontAccel - tempFrontGrip * 2)
      c1 == IF Abs(f.front) > 0
            THEN LET moved == Accelerate(c, frontAccel)
                 IN  IF P.driveBiasFront > 500 /\ f.front > 0 /\ frontSpin > 0
                     THEN [moved EXCEPT !.steeringAngle =
                             Mul(moved.steeringAngle, SC - TruncDiv(frontSpin * 3, 10))]
                     ELSE moved
            ELSE c
      rearSpin == Max(0, rearAccel - tempRearGrip * 2)
      steerSign == IF Sign(c1.steeringAngle) # 0 THEN Sign(c1.steeringAngle) ELSE rnd
  IN  IF f.isBraking THEN c
      ELSE IF Abs(f.rear) > 0
      THEN LET moved == Accelerate(c1, rearAccel)
           IN  IF P.driveBiasFront < 500 /\ f.rear > 0 /\ currentSpeedCheck > 2 * SC /\ rearSpin > 0
               THEN [moved EXCEPT !.angularVelocity =
                       moved.angularVelocity + steerSign * TruncDiv(rearSpin * 2, 100)]
               ELSE moved
      ELSE c1

\* 5a. braking with bias and ABS; rear lockup adds rotation
Braking(c, f, P, speed) ==
  IF f.isBraking /\ speed > 100
  THEN LET totalBrakeDecel == TruncDiv(P.brakeForce * BRAKE_FORCE_SCALE, P.mass)
           frontBrake0 == Mul(totalBrakeDecel, P.brakeBiasFront)
           rearBrake0 == Mul(totalBrakeDecel, SC - P.brakeBiasFront)
           frontBrake == IF P.absEnabled THEN Min(frontBrake0, c.frontGrip * 4) ELSE frontBrake0
           rearBrake == IF P.absEnabled THEN Min(rearBrake0, c.rearGrip * 4) ELSE rearBrake0
           moved == Accelerate(c, -(frontBrake + rearBrake))
           steerSign == Sign(c.steeringAngle)
       IN  IF ~P.absEnabled /\ rearBrake > c.rearGrip * 3 /\ speed > 3 * SC /\ steerSign # 0
           THEN [moved EXCEPT !.angularVelocity =
                   moved.angularVelocity
                   + steerSign * TruncDiv(Mul(rearBrake - c.rearGrip * 3, P.brakeLockupRotation), 100)]
           ELSE moved
  ELSE c

\* Phase 3 handbrake: rear grip cut, rear slip pulled toward the configured
\* angle, and a deceleration along the heading
Handbrake(c, in, P, speed) ==
  IF in.space /\ speed > 1 * SC
  THEN LET targetRearSlip == P.handbrakeSlipAngle * (IF c.steeringAngle < 0 THEN -1 ELSE 1)
           slipped == [c EXCEPT
                         !.rearGrip = Mul(c.rearGrip, SC - TruncDiv(P.handbrakePower, 2)),
                         !.rearSlipAngle = c.rearSlipAngle + TruncDiv((targetRearSlip - c.rearSlipAngle) * 3, 10)]
       IN  Accelerate(slipped, -P.handbrakePower * HANDBRAKE_SCALE)
  ELSE c

\* 6. car.x += car.velocity.x; car.y += car.velocity.y
UpdatePosition(c) == [c EXCEPT !.x = c.x + c.velocity.x, !.y = c.y + c.velocity.y]

\* urban road boundary: a push of strength 0.3 along the unit vector toward the
\* nearest road point (push is that unit vector, NoPush when the car is on
\* the road or within one unit of it), then a damping by 0.85
NoPush == [x |-> 0, y |-> 0]
UrbanPush(c, push) ==
  IF push = NoPush THEN c
  ELSE [c EXCEPT !.velocity = [x |-> Mul(c.velocity.x + Mul(push.x, 300), 850),
                               y |-> Mul(c.velocity.y + Mul(push.y, 300), 850)]]

\* 7. drag, then friction of the surface the car is on
DragAndFriction(c, P, isOffroad) ==
  LET currentFriction == IF isOffroad THEN P.offRoadFriction ELSE P.friction
      updatedSpeed == Magnitude(c.velocity)
      dragged == [x |-> Mul(c.velocity.x, SC - P.drag), y |-> Mul(c.velocity.y, SC - P.drag)]
  IN  IF updatedSpeed > 0
      THEN [c EXCEPT !.velocity = [x |-> Mul(dragged.x, SC - currentFriction),
                                   y |-> Mul(dragged.y, SC - currentFriction)]]
      ELSE [c EXCEPT !.velocity = dragged]

\* an angle brought into (-pi, pi], as the two while loops do
NormalizeAngle(a) ==
  LET r == a % TWO_PI
  IN  IF r > PI THEN r - TWO_PI ELSE r

\* the heading's angle off the direction of travel, in (-pi, pi]
SlipAngleRad(c) == NormalizeAngle(c.angle - Atan2(c.velocity.y, c.velocity.x))

\* 8. slip angles in degrees: overall, front (steering added), rear
CalculateSlipAngles(c, slipAngleRad) ==
  LET slipAngle == RadToDeg(slipAngleRad)
  IN  [c EXCEPT !.slipAngle = slipAngle,
                !.frontSlipAngle = slipAngle + TruncDiv(RadToDeg(c.steeringAngle), 2),
                !.rearSlipAngle = slipAngle]

\* 9. grip of each axle from its slip angle, the traction bias, the axle's
\*    weight, the surface, and the wheelspin loss of the rear axle at low speed.
\*    speed is the magnitude taken before braking (step 5).
GripFromSlip(c, P, isOffroad, speed) ==
  LET baseFrontGrip == CalculateTireGrip(c.frontSlipAngle, P)
      baseRearGrip == CalculateTireGrip(c.rearSlipAngle, P)
      frontTraction == Mul(baseFrontGrip, P.tractionBiasFront)
      rearTraction == Mul(baseRearGrip, SC - P.tractionBiasFront)
      frontGrip0 == Mul(TruncDiv(frontTraction * c.frontWeight, WSC), P.tractionLossMult)
      rearGrip0 == Mul(TruncDiv(rearTraction * c.rearWeight, WSC), P.tractionLossMult)
      surface == IF isOffroad THEN 600 ELSE SC
      lowSpeedFactor == IF speed < 5 * SC /\ P.lowSpeedTractionLoss > 0
                        THEN SC - Mul(P.lowSpeedTractionLoss, SC - TruncDiv(speed, 5))
                        ELSE SC
  IN  [c EXCEPT !.frontGrip = Mul(frontGrip0, surface),
                !.rearGrip = Mul(Mul(rearGrip0, surface), lowSpeedFactor)]

\* 10. steering torque over inertia, damping, clamp, and the heading turned
AngularPhysics(c, P, speed) ==
  LET steerTorque == TruncDiv(Mul(c.steeringAngle, Div(speed, P.maxSpeed)), 2)
      angularAcceleration == Div(steerTorque, TruncDiv(P.mass * P.inertiaMultiplier, SC))
      damped == Mul(c.angularVelocity + angularAcceleration, P.angularDamping)
      angularVelocity == Max(-P.angularVelocityMax, Min(P.angularVelocityMax, damped))
  IN  [c EXCEPT !.angularVelocity = angularVelocity, !.angle = c.angle + angularVelocity]

\* 11. the velocity turned toward the heading by the average grip, its
\*     magnitude (updatedSpeed, taken after braking and friction) kept
ApplyTireForces(c, velocityAngle, slipAngleRad, updatedSpeed) ==
  LET averageGrip == TruncDiv(c.frontGrip + c.rearGrip, 2)
      newVelocityAngle == velocityAngle + Mul(slipAngleRad, averageGrip)
  IN  [c EXCEPT !.velocity = [x |-> Mul(Cos(newVelocityAngle), updatedSpeed),
                              y |-> Mul(Sin(newVelocityAngle), updatedSpeed)],
                !.driftFactor = Abs(slipAngleRad)]

\* 8-11. above walking pace: slip angles, grip from slip, rotation, and the
\* velocity turned toward the heading; below it everything is reset.
SlipGripAndRotation(c, P, isOffroad, speed) ==
  IF Magnitude(c.velocity) > 500
  THEN ApplyTireForces(
         AngularPhysics(GripFromSlip(CalculateSlipAngles(c, SlipAngleRad(c)), P, isOffroad, speed), P, speed),
         Atan2(c.velocity.y, c.velocity.x), SlipAngleRad(c), Magnitude(c.velocity))
  ELSE [c EXCEPT !.angularVelocity = Mul(c.angularVelocity, 900),
                 !.slipAngle = 0,
                 !.frontSlipAngle = 0,
                 !.rearSlipAngle = 0,
                 !.frontGrip = SC,
                 !.rearGrip = SC]

\* 12. the velocity rescaled onto the maximum speed when it exceeds it
\* a cap that lets the velocity through
CapVelocityOff(v, finalSpeed, maxSpeed) == v
CapVelocity(v, finalSpeed, maxSpeed) ==
  IF finalSpeed > maxSpeed
  THEN LET ratio == Div(maxSpeed, finalSpeed)
       IN  [x |-> Mul(v.x, ratio), y |-> Mul(v.y, ratio)]
  ELSE v

\* car.speed = finalSpeed
ReportedSpeed(finalSpeed, cappedVelocity) == finalSpeed

CapMaxSpeed(c, P) ==
  LET finalSpeed == Magnitude(c.velocity)
      capped == CapVelocity(c.velocity, finalSpeed, P.maxSpeed)
  IN  [c EXCEPT !.velocity = capped, !.speed = ReportedSpeed(finalSpeed, capped)]

\* steps 5-12 of the frame: speed is the magnitude taken after the drive
\* forces and before braking, f the drivetrain's answer of step 3
BrakeMoveAndTurn(driven, f, speed, in, P, env) ==
  CapMaxSpeed(
    SlipGripAndRotation(
      DragAndFriction(
        UrbanPush(UpdatePosition(Handbrake(Braking(driven, f, P, speed), in, P, speed)), env.push),
        P, env.isOffroad),
      P, env.isOffroad, speed),
    P)

\* step 4 of the frame (the drive forces applied), then steps 5-12
DriveAndAfter(weighted, f, in, P, env) ==
  BrakeMoveAndTurn(ApplyDriveForces(weighted, f, P, env.rnd), f,
                   Magnitude(ApplyDriveForces(weighted, f, P, env.rnd).velocity), in, P, env)

\* the frame under the constants P derived from the tuning prop
PhysicsFrame(c, in, P, env) ==
  DriveAndAfter(WeightTransfer(Steering(c, in, P), in, P),
                DriveForces(WeightTransfer(Steering(c, in, P), in, P), in, P), in, P, env)

\* the physics phase of one frame: env gives what the track answers this frame
\* (isOffroad on curve tracks, the push on the grid city) and the coin of step 4
PhysicsUpdate(c, in, T, env) == PhysicsFrame(c, in, Params(T), env)

(***************************************************************************)
(* TRACKS: the spline that turns control points into the ring of track     *)
(* points.  Coordinates are whole world units; indices into point          *)
(* sequences count from 0 as in the program and go through At.             *)
(***************************************************************************)
TRACK_WIDTH == 300
RESOLUTION == 20

\* catmullRom(p0, p1, p2, p3, j / RESOLUTION): the four blending polynomials
\* over their common denominator 2 * RESOLUTION^3
CatmullRom(p0, p1, p2, p3, j) ==
  LET r == RESOLUTION
      f1 == -(j * j * j) + 2 * r * j * j - r * r * j
      f2 == 3 * j * j * j - 5 * r * j * j + 2 * r * r * r
      f3 == -3 * j * j * j + 4 * r * j * j + r * r * j
      f4 == j * j * j - r * j * j
      den == 2 * r * r * r
  IN  [x |-> TruncDiv(p0.x * f1 + p1.x * f2 + p2.x * f3 + p3.x * f4, den),
       y |-> TruncDiv(p0.y * f1 + p1.y * f2 + p2.y * f3 + p3.y * f4, den)]

\* generateTrackPoints(controlPoints): RESOLUTION points per control point,
\* then the first point once more to close the loop
GenerateTrackPoints(controlPoints) ==
  LET len == Len(controlPoints)
      cp(i) == controlPoints[(i % len) + 1]
      at(n) == CatmullRom(cp(n \div RESOLUTION - 1), cp(n \div RESOLUTION),
                          cp(n \div RESOLUTION + 1), cp(n \div RESOLUTION + 2),
                          n % RESOLUTION)
  IN  [n \in 1..(len * RESOLUTION + 1) |-> IF n = len * RESOLUTION + 1 THEN at(0) ELSE at(n - 1)]

\* points[idx], idx counted from 0
At(points, idx) == points[idx + 1]

Point(x, y) == [x |-> x, y |-> y]

\* a track record: TrackData without its id and name; points is
\* GenerateTrackPoints(controlPoints) for a ring
Track(type, controlPoints, width, lapsToWin) ==
  [type |-> type, controlPoints |-> controlPoints, width |-> width, lapsToWin |-> lapsToWin]

\* custom rings as the track editor saves them, of four and of five control points
SquareRing ==
  Track("LOOP", <<Point(-300, -300), Point(300, -300), Point(300, 300), Point(-300, 300)>>,
        TRACK_WIDTH, 2)

PentagonRing ==
  Track("LOOP", <<Point(0, -400), Point(380, -120), Point(240, 320), Point(-240, 320),
                  Point(-380, -120)>>,
        TRACK_WIDTH, 2)

\* TRACKS entry 6
UrbanFreeroam == Track("URBAN", <<>>, 200, 999)

\* initialPos: where the car is spawned
InitialPos(trk) ==
  IF trk.type = "URBAN"
  THEN Point(TILE_SIZE \div 2, TILE_SIZE \div 2)
  ELSE At(GenerateTrackPoints(trk.controlPoints), 1)
(***************************************************************************)
(* ENDLESS MODES: the gameplay update of loop() on the INFINITE and TOUGE  *)
(* tracks.  Positions are held in tenths of a world unit (PX to the unit), *)
(* angles and curvatures in thousandths of a radian.  A value returned by  *)
(* Math.random() is held in thousandths (0 .. 999); rnd is the sequence of *)
(* the values the calls of one frame return, in call order.                *)
(***************************************************************************)
PX == 10

\* Math.sqrt(dx ** 2 + dy ** 2) in tenths; beyond FarAway tenths on an axis
\* the larger leg stands for it (every threshold compared with is below that)
FarAway == 32000
Distance(a, b) ==
  IF Abs(a.x - b.x) > FarAway \/ Abs(a.y - b.y) > FarAway
  THEN Max(Abs(a.x - b.x), Abs(a.y - b.y))
  ELSE Sqrt((a.x - b.x) * (a.x - b.x) + (a.y - b.y) * (a.y - b.y))

\* generateNextSegment(lastPoint, angle, length)
GenerateNextSegment(lastPoint, angle, length) ==
  [x |-> lastPoint.x + Mul(Cos(angle), length), y |-> lastPoint.y + Mul(Sin(angle), length)]

\* Math.random() > 0.5 ? 1 : -1
CoinSign(r) == IF r > 500 THEN 1 ELSE -1

\* gameStateRef.current.genState as constructed
InitialGenState ==
  [ mode |-> "LONG_STRAIGHT", remainingSteps |-> 60, targetCurvature |-> 0, currentCurvature |-> 0,
    turnSequenceCount |-> 0, patternPhase |-> 0, cumulativeAngle |-> 0, lastHairpinDirection |-> 0 ]

\* a hairpin of 0.063 rad a segment whatever the segment count
EnterHairpinFixedCurvature(gs, direction, segments) ==
  [gs EXCEPT !.patternPhase = 1,
             !.mode = "HAIRPIN",
             !.targetCurvature = direction * 63,
             !.remainingSteps = segments,
             !.lastHairpinDirection = direction]

\* the HAIRPIN phase entered with the direction and the segment count drawn
EnterHairpin(gs, direction, segments) ==
  [gs EXCEPT !.patternPhase = 1,
             !.mode = "HAIRPIN",
             !.targetCurvature = direction * TruncDiv(HALF_PI, segments),
             !.remainingSteps = segments,
             !.lastHairpinDirection = direction]

\* a hairpin that repeats the direction of the one before
HairpinPhaseRepeating(gs, rnd) ==
  IF gs.lastHairpinDirection = 0
  THEN EnterHairpin(gs, CoinSign(rnd[1]), 25 + (rnd[2] * 10) \div SC)
  ELSE EnterHairpin(gs, gs.lastHairpinDirection, 25 + (rnd[1] * 10) \div SC)
\* patternPhase 1: the first hairpin turns as the coin says, every later one
\* opposite to the one before
HairpinPhase(gs, rnd) ==
  IF gs.lastHairpinDirection = 0
  THEN EnterHairpin(gs, CoinSign(rnd[1]), 25 + (rnd[2] * 10) \div SC)
  ELSE EnterHairpin(gs, -gs.lastHairpinDirection, 25 + (rnd[1] * 10) \div SC)

\* a rotation that goes from the hairpin straight to the slight turns
SwitchPatternPhaseNoStraight(gs, rnd) ==
  IF gs.remainingSteps <= 0
  THEN IF gs.patternPhase = 3
       THEN [gs EXCEPT !.patternPhase = 0,
                       !.mode = "LONG_STRAIGHT",
                       !.targetCurvature = 0,
                       !.remainingSteps = 40 + (rnd[1] * 40) \div SC,
                       !.currentCurvature = 0]
       ELSE IF gs.patternPhase = 0
       THEN HairpinPhase(gs, rnd)
       ELSE [gs EXCEPT !.patternPhase = 3,
                       !.mode = "SLIGHT_TURN_SEQUENCE",
                       !.turnSequenceCount = 0,
                       !.targetCurvature = CoinSign(rnd[1]) * (20 + Mul(rnd[2], 20)),
                       !.remainingSteps = 15 + (rnd[3] * 10) \div SC]
  ELSE gs

\* the pattern phase advanced once remainingSteps has run out
SwitchPatternPhase(gs, rnd) ==
  IF gs.remainingSteps <= 0
  THEN IF (gs.patternPhase + 1) % 4 \in {0, 2}
       THEN [gs EXCEPT !.patternPhase = (gs.patternPhase + 1) % 4,
                       !.mode = "LONG_STRAIGHT",
                       !.targetCurvature = 0,
                       !.remainingSteps = 40 + (rnd[1] * 40) \div SC,
                       !.currentCurvature = 0]
       ELSE IF (gs.patternPhase + 1) % 4 = 1
       THEN HairpinPhase(gs, rnd)
       ELSE [gs EXCEPT !.patternPhase = 3,
                       !.mode = "SLIGHT_TURN_SEQUENCE",
                       !.turnSequenceCount = 0,
                       !.targetCurvature = CoinSign(rnd[1]) * (20 + Mul(rnd[2], 20)),
                       !.remainingSteps = 15 + (rnd[3] * 10) \div SC]
  ELSE gs

\* the next turn of a slight-turn sequence
SlightTurnProgression(gs, rnd) ==
  IF gs.mode = "SLIGHT_TURN_SEQUENCE" /\ gs.remainingSteps = 0
  THEN IF gs.turnSequenceCount + 1 < 3
       THEN [gs EXCEPT !.turnSequenceCount = gs.turnSequenceCount + 1,
                       !.targetCurvature =
                         (IF rnd[1] > 300 THEN -Sign(gs.targetCurvature) ELSE Sign(gs.targetCurvature))
                         * (20 + Mul(rnd[2], 20)),
                       !.remainingSteps = 15 + (rnd[3] * 10) \div SC]
       ELSE [gs EXCEPT !.turnSequenceCount = gs.turnSequenceCount + 1]
  ELSE gs

\* currentCurvature stepped toward targetCurvature
CurvatureTransition(gs) ==
  IF Abs(gs.currentCurvature - gs.targetCurvature) > 1
  THEN IF gs.currentCurvature < gs.targetCurvature
       THEN [gs EXCEPT !.currentCurvature = gs.currentCurvature + (IF gs.mode = "HAIRPIN" THEN 10 ELSE 5)]
       ELSE [gs EXCEPT !.currentCurvature = gs.currentCurvature - (IF gs.mode = "HAIRPIN" THEN 10 ELSE 5)]
  ELSE [gs EXCEPT !.currentCurvature = gs.targetCurvature]

\* cumulativeAngle decayed by 0.01 toward zero on a straight
CumulativeAngleDecay(gs) ==
  IF gs.mode = "LONG_STRAIGHT"
  THEN IF Abs(gs.cumulativeAngle) > 10
       THEN [gs EXCEPT !.cumulativeAngle = gs.cumulativeAngle - Sign(gs.cumulativeAngle) * 10]
       ELSE [gs EXCEPT !.cumulativeAngle = 0]
  ELSE gs

\* the generator state before the segment is added
PrepareSegment(gs, rnd) ==
  CumulativeAngleDecay(CurvatureTransition(SlightTurnProgression(SwitchPatternPhase(gs, rnd), rnd)))

\* the generator state after the segment is added
CountSegment(gs) ==
  [gs EXCEPT !.remainingSteps = gs.remainingSteps - 1,
             !.cumulativeAngle = gs.cumulativeAngle + gs.currentCurvature]

\* the point added: 60 units from the last point along the track's direction
\* turned by currentCurvature
NextInfinitePoint(points, gs) ==
  GenerateNextSegment(points[Len(points)],
                      Atan2(points[Len(points)].y - points[Len(points) - 1].y,
                            points[Len(points)].x - points[Len(points) - 1].x) + gs.currentCurvature,
                      60 * PX)

\* (car.x - p.x) ** 2 + (car.y - p.y) ** 2 of the checkpoint scans, in squared
\* tenths; beyond FarAway tenths on an axis the largest value stands for it
DistSqFar(a, b) ==
  IF Abs(a.x - b.x) > FarAway \/ Abs(a.y - b.y) > FarAway
  THEN 2147483647
  ELSE (a.x - b.x) * (a.x - b.x) + (a.y - b.y) * (a.y - b.y)

\* track generated ahead of a car at rest as well
InfiniteGenerateAtRest(state, c, rnd) ==
  IF Distance(c, state.trackPoints[Len(state.trackPoints)]) < 2000 * PX
  THEN [state EXCEPT
          !.trackPoints = Append(state.trackPoints,
                                 NextInfinitePoint(state.trackPoints, PrepareSegment(state.genState, rnd))),
          !.genState = CountSegment(PrepareSegment(state.genState, rnd))]
  ELSE state
\* "generate new track ahead": one point and the generator state stepped, when
\* the end of the track is near and the car moves
InfiniteGenerate(state, c, rnd) ==
  IF Distance(c, state.trackPoints[Len(state.trackPoints)]) < 2000 * PX /\ c.speed > 500
  THEN [state EXCEPT
          !.trackPoints = Append(state.trackPoints,
                                 NextInfinitePoint(state.trackPoints, PrepareSegment(state.genState, rnd))),
          !.genState = CountSegment(PrepareSegment(state.genState, rnd))]
  ELSE state

\* the removal without its test of the length
InfiniteRemoveAnyLength(state, c) ==
  IF Distance(c, state.trackPoints[1]) > 1500 * PX
  THEN [state EXCEPT
          !.dashOffset = (state.dashOffset + Distance(state.trackPoints[2], state.trackPoints[1])) % (40 * PX),
          !.trackPoints = Tail(state.trackPoints),
          !.lastCheckpointIndex = Max(0, state.lastCheckpointIndex - 1),
          !.checkpointsCrossed = state.checkpointsCrossed + 1]
  ELSE state

\* the removal without its count of the point removed
InfiniteRemoveUncounted(state, c) ==
  IF Len(state.trackPoints) > 300 /\ Distance(c, state.trackPoints[1]) > 1500 * PX
  THEN [state EXCEPT
          !.dashOffset = (state.dashOffset + Distance(state.trackPoints[2], state.trackPoints[1])) % (40 * PX),
          !.trackPoints = Tail(state.trackPoints),
          !.lastCheckpointIndex = Max(0, state.lastCheckpointIndex - 1)]
  ELSE state

\* "speed-matched removal": the first point dropped once it is far behind
InfiniteRemove(state, c) ==
  IF Len(state.trackPoints) > 300 /\ Distance(c, state.trackPoints[1]) > 1500 * PX
  THEN [state EXCEPT
          !.dashOffset = (state.dashOffset + Distance(state.trackPoints[2], state.trackPoints[1])) % (40 * PX),
          !.trackPoints = Tail(state.trackPoints),
          !.lastCheckpointIndex = Max(0, state.lastCheckpointIndex - 1),
          !.checkpointsCrossed = state.checkpointsCrossed + 1]
  ELSE state

\* the scan "for (i = 0; i < 50; i++)" from index idx on, step dir (+1 on the
\* INFINITE track, -1 on the TOUGE track): the index of the first point at the
\* least distance, -1 when none was looked at
RECURSIVE ClosestAhead(_, _, _, _, _, _, _)
ClosestAhead(points, c, idx, dir, i, bestIdx, bestDist) ==
  IF i >= 50 \/ idx >= Len(points) \/ idx < 0 THEN bestIdx
  ELSE IF DistSqFar(c, At(points, idx)) < bestDist
       THEN ClosestAhead(points, c, idx + dir, dir, i + 1, idx, DistSqFar(c, At(points, idx)))
       ELSE ClosestAhead(points, c, idx + dir, dir, i + 1, bestIdx, bestDist)

\* "update checkpoint progress": lastCheckpointIndex moved to the closest point
\* found, bestIdx, when that lies further on
AdvanceCheckpoint(state, bestIdx) ==
  IF bestIdx > state.lastCheckpointIndex
  THEN [state EXCEPT !.lastCheckpointIndex = bestIdx]
  ELSE state

InfiniteCheckpoint(state, c) ==
  AdvanceCheckpoint(state, ClosestAhead(state.trackPoints, c, state.lastCheckpointIndex, 1, 0, -1, 2147483647))

\* the ENDLESS RALLY LOGIC of one frame
InfiniteLogic(state, c, rnd) == InfiniteCheckpoint(InfiniteRemove(InfiniteGenerate(state, c, rnd), c), c)

\* TRACKS entry 5, "Endless Rally": the start points of the corridor, here in tenths
EndlessRally ==
  [type |-> "INFINITE",
   controlPoints |-> <<>>,
   points |-> <<Point(-400 * PX, 0), Point(-200 * PX, 0), Point(0, 0), Point(200 * PX, 0), Point(400 * PX, 0)>>,
   width |-> TRACK_WIDTH, lapsToWin |-> 999]

\* gameStateRef.current as constructed for an endless track
EndlessGameState(trk, touge) ==
  [ lastCheckpointIndex |-> 1,
    trackPoints |-> trk.points,
    checkpointsCrossed |-> 0,
    dashOffset |-> 0,
    genState |-> InitialGenState,
    tougeState |-> touge,
    distanceTraveled |-> 0 ]

(***************************************************************************)
(* The car of the endless specifications.  The physics step is not part of *)
(* them: each frame hands the gameplay update a position on the centre     *)
(* line, 30 units further than the frame before (speed 30) or the same as  *)
(* before (speed 0.5, which does not count as moving).  seg numbers the    *)
(* track point the car has passed last, off is the way gone since.         *)
(***************************************************************************)
CarSpeeds == {500, 30000}

\* the car a frame's way further on the segment from p to q, or at q when
\* that is no further
StepAlong(c, p, q, speed) ==
  IF c.off + (speed * PX) \div SC >= Distance(p, q)
  THEN [x |-> q.x, y |-> q.y, speed |-> speed, seg |-> c.seg + 1, off |-> 0]
  ELSE [x |-> p.x + TruncDiv((q.x - p.x) * (c.off + (speed * PX) \div SC), Distance(p, q)),
        y |-> p.y + TruncDiv((q.y - p.y) * (c.off + (speed * PX) \div SC), Distance(p, q)),
        speed |-> speed, seg |-> c.seg, off |-> c.off + (speed * PX) \div SC]

\* the car after the physics of a frame on the INFINITE track; seg counts
\* from the first point the track ever had
InfiniteCar(c, state, speed) ==
  IF speed > 500
  THEN StepAlong(c, At(state.trackPoints, c.seg - state.checkpointsCrossed),
                 At(state.trackPoints, c.seg - state.checkpointsCrossed + 1), speed)
  ELSE [c EXCEPT !.speed = speed]

\* the frame's draws: all low or all high
RandomDraws == { <<0, 0, 0>>, <<999, 999, 999>> }

\* points generated over a run
MaxPoints == 310

\* what the frame did, kept for the properties: the number of points it
\* generated, the length of the track once it had generated them, whether a
\* point was wanted when the frame began, and the number of HAIRPIN phases
\* entered so far
InfiniteOut(before, after, c, out) ==
  [ generated |-> Len(after.trackPoints) - Len(before.trackPoints)
                  + (after.checkpointsCrossed - before.checkpointsCrossed),
    lenGenerated |-> Len(after.trackPoints) + (after.checkpointsCrossed - before.checkpointsCrossed),
    wanted |-> Distance(c, before.trackPoints[Len(before.trackPoints)]) < 2000 * PX /\ c.speed > 500,
    hairpins |-> IF after.genState.mode = "HAIRPIN" /\ before.genState.mode # "HAIRPIN"
                 THEN out.hairpins + 1 ELSE out.hairpins ]

\* one frame on the INFINITE track
InfiniteTick ==
  \E speed \in CarSpeeds, rnd \in RandomDraws :
    /\ track.type = "INFINITE"
    /\ Len(game.trackPoints) + game.checkpointsCrossed < MaxPoints
    /\ car' = InfiniteCar(car, game, speed)
    /\ game' = InfiniteLogic(game, car', rnd)
    /\ tickOut' = InfiniteOut(game, game', car', tickOut)
    /\ UNCHANGED <<track, urban, everLoaded, tuning, lastInputs, ticks>>

(***************************************************************************)
(* The TOUGE generator: generateTougeSegment and what it calls.            *)
(***************************************************************************)
SEGMENT_LENGTH == 50
DESCENT_MIN_SEGMENTS == 15
DESCENT_MAX_SEGMENTS == 40
DESCENT_WOBBLE == 30
HAIRPIN_MIN_COUNT == 3
HAIRPIN_MAX_COUNT == 9
HAIRPIN_SEGMENTS == 25
HAIRPIN_ANGLE == Mul(PI, 850)
HAIRPIN_TRANSITION == 8
ANGLE_CENTER == -HALF_PI
ANGLE_MAX_DEVIATION == PI \div 3

\* randomRange(min, max) for the draw r
RandomRange(min, max, r) == (r * (max - min + 1)) \div SC + min

\* easeInOutCubic(t), t in thousandths
EaseInOutCubic(t) ==
  IF t < 500
  THEN 4 * Mul(Mul(t, t), t)
  ELSE SC - Mul(Mul(2 * SC - 2 * t, 2 * SC - 2 * t), 2 * SC - 2 * t) \div 2

\* an angle left as the phase made it
UnclampedAngle(angle) == angle
\* clampAngle(angle)
ClampAngle(angle) ==
  Max(ANGLE_CENTER - ANGLE_MAX_DEVIATION, Min(ANGLE_CENTER + ANGLE_MAX_DEVIATION, angle))

\* createTougeGenState() for the draws rnd
CreateTougeGenState(rnd) ==
  [ phase |-> "DESCENT",
    descentRemaining |-> RandomRange(DESCENT_MIN_SEGMENTS, DESCENT_MAX_SEGMENTS, rnd[1]),
    hairpinsInSequence |-> 0,
    hairpinsCompleted |-> 0,
    currentHairpinDirection |-> IF rnd[2] > 500 THEN 1 ELSE -1,
    hairpinProgress |-> 0,
    currentAngle |-> -HALF_PI,
    targetCurvature |-> 0,
    currentCurvature |-> 0 ]

\* the angle of a DESCENT segment: the wobble added, then a twentieth of the
\* deviation from the centre taken back
DescentAngle(angle, r) ==
  (angle + Mul(r - 500, DESCENT_WOBBLE))
    - Mul((angle + Mul(r - 500, DESCENT_WOBBLE)) - ANGLE_CENTER, 50)

\* the DESCENT PHASE; currentAngle holds the angle before it is clamped
DescentPhase(state, rnd) ==
  IF state.descentRemaining - 1 <= 0
  THEN [state EXCEPT !.descentRemaining = state.descentRemaining - 1,
                     !.currentAngle = DescentAngle(state.currentAngle, rnd[1]),
                     !.phase = "HAIRPIN_SEQUENCE",
                     !.hairpinsInSequence = RandomRange(HAIRPIN_MIN_COUNT, HAIRPIN_MAX_COUNT, rnd[2]),
                     !.hairpinsCompleted = 0,
                     !.hairpinProgress = 0,
                     !.currentHairpinDirection = IF rnd[3] > 500 THEN -1 ELSE 1]
  ELSE [state EXCEPT !.descentRemaining = state.descentRemaining - 1,
                     !.currentAngle = DescentAngle(state.currentAngle, rnd[1])]

\* targetCurvature of the hairpin segment numbered progress
HairpinTarget(state, progress) ==
  IF progress <= HAIRPIN_TRANSITION
  THEN state.currentHairpinDirection
         * Mul(TruncDiv(HAIRPIN_ANGLE, HAIRPIN_SEGMENTS), EaseInOutCubic(Div(progress, HAIRPIN_TRANSITION)))
  ELSE IF progress <= HAIRPIN_SEGMENTS - HAIRPIN_TRANSITION
  THEN state.currentHairpinDirection * TruncDiv(HAIRPIN_ANGLE, HAIRPIN_SEGMENTS)
  ELSE IF progress <= HAIRPIN_SEGMENTS
  THEN state.currentHairpinDirection
         * Mul(TruncDiv(HAIRPIN_ANGLE, HAIRPIN_SEGMENTS),
               EaseInOutCubic(Div(HAIRPIN_SEGMENTS - progress, HAIRPIN_TRANSITION)))
  ELSE state.targetCurvature

\* "Smooth curvature transition": the curvature moved three tenths of the way
\* to the target and added to the angle
HairpinTurn(state, target) ==
  [state EXCEPT !.hairpinProgress = state.hairpinProgress + 1,
                !.targetCurvature = target,
                !.currentCurvature = state.currentCurvature + Mul(target - state.currentCurvature, 300),
                !.currentAngle = state.currentAngle
                                   + (state.currentCurvature + Mul(target - state.currentCurvature, 300))]

\* a sequence that ends one hairpin after the planned number
HairpinCompleteOneMore(state, rnd) ==
  IF state.hairpinProgress >= HAIRPIN_SEGMENTS
  THEN IF state.hairpinsCompleted + 1 > state.hairpinsInSequence
       THEN [state EXCEPT !.hairpinsCompleted = state.hairpinsCompleted + 1,
                          !.hairpinProgress = 0,
                          !.currentHairpinDirection = -state.currentHairpinDirection,
                          !.phase = "DESCENT",
                          !.descentRemaining = RandomRange(DESCENT_MIN_SEGMENTS, DESCENT_MAX_SEGMENTS, rnd[1]),
                          !.targetCurvature = 0,
                          !.currentCurvature = 0]
       ELSE [state EXCEPT !.hairpinsCompleted = state.hairpinsCompleted + 1,
                          !.hairpinProgress = 0,
                          !.currentHairpinDirection = -state.currentHairpinDirection]
  ELSE state

\* a hairpin completed without the change of direction
HairpinCompleteSameDirection(state, rnd) ==
  IF state.hairpinProgress >= HAIRPIN_SEGMENTS
  THEN IF state.hairpinsCompleted + 1 >= state.hairpinsInSequence
       THEN [state EXCEPT !.hairpinsCompleted = state.hairpinsCompleted + 1,
                          !.hairpinProgress = 0,
                          !.phase = "DESCENT",
                          !.descentRemaining = RandomRange(DESCENT_MIN_SEGMENTS, DESCENT_MAX_SEGMENTS, rnd[1]),
                          !.targetCurvature = 0,
                          !.currentCurvature = 0]
       ELSE [state EXCEPT !.hairpinsCompleted = state.hairpinsCompleted + 1,
                          !.hairpinProgress = 0]
  ELSE state

\* "Complete hairpin?" and "Complete sequence?"
HairpinComplete(state, rnd) ==
  IF state.hairpinProgress >= HAIRPIN_SEGMENTS
  THEN IF state.hairpinsCompleted + 1 >= state.hairpinsInSequence
       THEN [state EXCEPT !.hairpinsCompleted = state.hairpinsCompleted + 1,
                          !.hairpinProgress = 0,
                          !.currentHairpinDirection = -state.currentHairpinDirection,
                          !.phase = "DESCENT",
                          !.descentRemaining = RandomRange(DESCENT_MIN_SEGMENTS, DESCENT_MAX_SEGMENTS, rnd[1]),
                          !.targetCurvature = 0,
                          !.currentCurvature = 0]
       ELSE [state EXCEPT !.hairpinsCompleted = state.hairpinsCompleted + 1,
                          !.hairpinProgress = 0,
                          !.currentHairpinDirection = -state.currentHairpinDirection]
  ELSE state

\* the HAIRPIN SEQUENCE PHASE
HairpinSequencePhase(state, rnd) ==
  HairpinComplete(HairpinTurn(state, HairpinTarget(state, state.hairpinProgress + 1)), rnd)

\* newState of generateTougeSegment
NextTougeState(state, rnd) ==
  IF state.phase = "DESCENT"
  THEN [DescentPhase(state, rnd) EXCEPT !.currentAngle = ClampAngle(DescentPhase(state, rnd).currentAngle)]
  ELSE [HairpinSequencePhase(state, rnd) EXCEPT
          !.currentAngle = ClampAngle(HairpinSequencePhase(state, rnd).currentAngle)]

\* generateTougeSegment(lastPoint, state) for the draws rnd
GenerateTougeSegment(lastPoint, state, rnd) ==
  [ point |-> [x |-> lastPoint.x + Mul(Cos(NextTougeState(state, rnd).currentAngle), SEGMENT_LENGTH * PX),
               y |-> lastPoint.y + Mul(Sin(NextTougeState(state, rnd).currentAngle), SEGMENT_LENGTH * PX)],
    state |-> NextTougeState(state, rnd) ]

(***************************************************************************)
(* The TOUGE LOGIC of loop(): track generated at the front (index 0) and   *)
(* removed at the back.                                                    *)
(***************************************************************************)
\* the segment generateTougeSegment returned put at the front
TougeUnshift(state, result) ==
  [state EXCEPT !.trackPoints = <<result.point>> \o state.trackPoints,
                !.tougeState = result.state,
                !.lastCheckpointIndex = state.lastCheckpointIndex + 1]

\* one pass of the loop without its safety stop at 500 points
TougePassUnchecked(l, c, rnd) ==
  IF l.done \/ l.generatedCount >= 200 THEN [l EXCEPT !.done = TRUE]
  ELSE IF Distance(c, l.state.trackPoints[1]) >= 3000 * PX /\ Len(l.state.trackPoints) >= 100
  THEN [l EXCEPT !.done = TRUE]
  ELSE [state |-> TougeUnshift(l.state, GenerateTougeSegment(l.state.trackPoints[1], l.tougeState, rnd)),
        tougeState |-> l.tougeState,
        generatedCount |-> l.generatedCount + 1,
        done |-> FALSE]
\* one pass of "while (generatedCount < 200)"; l holds the game state, the
\* const tougeState read from it before the loop, the count, and whether the
\* loop has been left
TougePass(l, c, rnd) ==
  IF l.done \/ l.generatedCount >= 200 THEN [l EXCEPT !.done = TRUE]
  ELSE IF Distance(c, l.state.trackPoints[1]) >= 3000 * PX /\ Len(l.state.trackPoints) >= 100
  THEN [l EXCEPT !.done = TRUE]
  ELSE [state |-> TougeUnshift(l.state, GenerateTougeSegment(l.state.trackPoints[1], l.tougeState, rnd)),
        tougeState |-> l.tougeState,
        generatedCount |-> l.generatedCount + 1,
        done |-> Len(l.state.trackPoints) + 1 > 500]

\* 5, 25 and 200 passes
TougePass5(l, c, rnd) ==
  TougePass(TougePass(TougePass(TougePass(TougePass(l, c, rnd), c, rnd), c, rnd), c, rnd), c, rnd)

TougePass25(l, c, rnd) ==
  TougePass5(TougePass5(TougePass5(TougePass5(TougePass5(l, c, rnd), c, rnd), c, rnd), c, rnd), c, rnd)

\* 25 passes for the one loop state in the set ls: the set is evaluated
\* before the passes begin, which keeps the evaluation of 200 passes shallow
TougePass25Of(ls, c, rnd) == { TougePass25(l, c, rnd) : l \in ls }

TougePass200(l, c, rnd) ==
  CHOOSE after \in
    TougePass25Of(TougePass25Of(TougePass25Of(TougePass25Of(
      TougePass25Of(TougePass25Of(TougePass25Of(TougePass25Of({l}, c, rnd), c, rnd), c, rnd), c, rnd),
      c, rnd), c, rnd), c, rnd), c, rnd) : TRUE

\* the game state when the loop is left
TougeGenerate(state, c, rnd) ==
  TougePass200([state |-> state, tougeState |-> state.tougeState, generatedCount |-> 0, done |-> FALSE],
               c, rnd).state

\* "remove old track points": the last point dropped once it is far behind
TougeRemove(state, c) ==
  IF Len(state.trackPoints) > 300 /\ Distance(c, state.trackPoints[Len(state.trackPoints)]) > 2000 * PX
  THEN [state EXCEPT
          !.dashOffset = (state.dashOffset
                          + Distance(state.trackPoints[Len(state.trackPoints) - 1],
                                     state.trackPoints[Len(state.trackPoints)])) % (40 * PX),
          !.trackPoints = SubSeq(state.trackPoints, 1, Len(state.trackPoints) - 1),
          !.distanceTraveled = state.distanceTraveled
                               + Distance(state.trackPoints[Len(state.trackPoints) - 1],
                                          state.trackPoints[Len(state.trackPoints)])]
  ELSE state

\* "update checkpoint progress" on the TOUGE track: toward the front of the array
RetreatCheckpoint(state, bestIdx) ==
  IF bestIdx >= 0 /\ bestIdx < state.lastCheckpointIndex
  THEN [state EXCEPT !.lastCheckpointIndex = bestIdx]
  ELSE state

TougeCheckpoint(state, c) ==
  RetreatCheckpoint(state, ClosestAhead(state.trackPoints, c, state.lastCheckpointIndex, -1, 0, -1, 2147483647))

\* the TOUGE LOGIC of one frame
TougeLogic(state, c, rnd) == TougeCheckpoint(TougeRemove(TougeGenerate(state, c, rnd), c), c)

\* a straight TOUGE start line of n points, step apart, the first one at (400, top)
TougeLine(n, top, step) == [i \in 1..n |-> Point(400 * PX, (top + step * (i - 1)) * PX)]

\* the "Endless Touge" track
EndlessTouge ==
  [type |-> "TOUGE", controlPoints |-> <<>>, points |-> TougeLine(13, -500, SEGMENT_LENGTH), width |-> 280, lapsToWin |-> 999]

\* TOUGE tracks as importTracksFromJSON takes them from a file: one of 500
\* points, and one of 13 points 1460 apart that is listed from the
\* bottom up, so that the track generated at its front runs past the car
LongTouge ==
  [type |-> "TOUGE", controlPoints |-> <<>>, points |-> TougeLine(500, -500, SEGMENT_LENGTH),
   width |-> 280, lapsToWin |-> 999]

UpwardTouge ==
  [type |-> "TOUGE", controlPoints |-> <<>>, points |-> TougeLine(13, 7300, -1460),
   width |-> 280, lapsToWin |-> 999]

\* the car after the physics of a frame on a TOUGE track, where it drives
\* toward the front of the array; seg counts from the last point of the track
TougeCar(c, state, speed) ==
  IF speed > 500
  THEN StepAlong(c, state.trackPoints[Len(state.trackPoints) - c.seg],
                 state.trackPoints[Len(state.trackPoints) - c.seg - 1], speed)
  ELSE [c EXCEPT !.speed = speed]

\* seg once the frame has removed a point behind the car
SegAfter(c, before, after) ==
  [c EXCEPT !.seg = IF after.distanceTraveled # before.distanceTraveled THEN c.seg - 1 ELSE c.seg]

\* the points a frame generated
TougeGenerated(before, after) ==
  Len(after.trackPoints) - Len(before.trackPoints)
  + (IF after.distanceTraveled # before.distanceTraveled THEN 1 ELSE 0)

\* the generator state after k calls of generateTougeSegment, each given the
\* state the call before returned
\* (at most 200, the most a frame generates); l holds the state and the calls
\* still to make
TougeStep(l, rnd) ==
  IF l.left = 0 THEN l ELSE [state |-> NextTougeState(l.state, rnd), left |-> l.left - 1]

TougeStep5(l, rnd) == TougeStep(TougeStep(TougeStep(TougeStep(TougeStep(l, rnd), rnd), rnd), rnd), rnd)

TougeStep25(l, rnd) == TougeStep5(TougeStep5(TougeStep5(TougeStep5(TougeStep5(l, rnd), rnd), rnd), rnd), rnd)

TougeStep25Of(ls, rnd) == { TougeStep25(l, rnd) : l \in ls }

TougeSteps(state, rnd, k) ==
  (CHOOSE after \in
     TougeStep25Of(TougeStep25Of(TougeStep25Of(TougeStep25Of(
       TougeStep25Of(TougeStep25Of(TougeStep25Of(TougeStep25Of({[state |-> state, left |-> k]}, rnd), rnd),
       rnd), rnd), rnd), rnd), rnd), rnd) : TRUE).state

\* what the frame did: the number of points it generated, the length of the
\* track once it had generated them, whether track was wanted ahead when the
\* frame began; the generator state had every point so far come from the
\* state returned with the point before, and the points the DESCENT phase in
\* hand has contributed
TougeOut(before, after, c, out, rnd) ==
  [ generated |-> TougeGenerated(before, after),
    lenGenerated |-> Len(after.trackPoints)
                     + (IF after.distanceTraveled # before.distanceTraveled THEN 1 ELSE 0),
    wanted |-> Distance(c, before.trackPoints[1]) < 3000 * PX \/ Len(before.trackPoints) < 100,
    hairpins |-> out.hairpins,
    threaded |-> TougeSteps(out.threaded, rnd, TougeGenerated(before, after)),
    descentSegments |-> IF before.tougeState.phase = "DESCENT"
                        THEN out.descentSegments + TougeGenerated(before, after)
                        ELSE 0 ]

\* frames of a run on a TOUGE track; ticks counts them
MaxFrames == 8

\* one frame on a TOUGE track; the calls of generateTougeSegment of one frame
\* all get the same draws
TougeTick ==
  \E speed \in CarSpeeds, rnd \in RandomDraws :
    /\ track.type = "TOUGE"
    /\ ticks < MaxFrames
    /\ game' = TougeLogic(game, TougeCar(car, game, speed), rnd)
    /\ ticks' = ticks + 1
    /\ car' = SegAfter(TougeCar(car, game, speed), game, game')
    /\ tickOut' = TougeOut(game, game', TougeCar(car, game, speed), tickOut, rnd)
    /\ UNCHANGED <<track, urban, everLoaded, tuning, lastInputs>>

(***************************************************************************)
(* TUNING RECORDS AND INPUT SNAPSHOTS                                      *)
(***************************************************************************)
\* r laid over T: the fields of r replace or extend those of T
Override(T, r) == [k \in DOMAIN T \cup DOMAIN r |-> IF k \in DOMAIN r THEN r[k] ELSE T[k]]

\* the stock tuning, the fields the physics phase reads
DEFAULT_TUNING ==
  [ mass |-> 1100, inertiaMultiplier |-> 1200, weightDistribution |-> 500,
    weightTransferAccel |-> 400, weightTransferBrake |-> 500,
    angularDamping |-> 950, angularVelocityMax |-> 150,
    tractionPeak |-> 1000, tractionSliding |-> 700,
    slipAngleOptimal |-> 10000, slipAnglePeak |-> 25000, tractionFalloff |-> 1500,
    tractionBiasFront |-> 500, tractionLossMult |-> 1000, lowSpeedTractionLoss |-> 0,
    driveBiasFront |-> 0, driveInertia |-> 900, engineBraking |-> 300,
    brakeForce |-> 1200, brakeBiasFront |-> 550,
    handbrakePower |-> 800, handbrakeSlipAngle |-> 35000, brakeLockupRotation |-> 500,
    steeringLock |-> 45000, steeringSpeedScale |-> 400, steeringLinearity |-> 1000,
    counterSteerAssist |-> 0, stabilityControl |-> 0, tractionControl |-> 0,
    absEnabled |-> FALSE, driftAssist |-> 0,
    maxSpeed |-> 18000, acceleration |-> 300, reversePower |-> 150, brakePower |-> 600,
    friction |-> 20, drag |-> 5, steerSpeed |-> 80, steerReturn |-> 100,
    offRoadFriction |-> 150 ]

\* a record the tuning panel can produce: every field at an end of its slider
SliderTuning ==
  Override(DEFAULT_TUNING,
    [ mass |-> 800, weightDistribution |-> 300, weightTransferAccel |-> 1000,
      weightTransferBrake |-> 1000, tractionPeak |-> 1500, tractionSliding |-> 300,
      slipAngleOptimal |-> 5000, slipAnglePeak |-> 15000, tractionFalloff |-> 500,
      tractionBiasFront |-> 700, lowSpeedTractionLoss |-> 1000,
      driveBiasFront |-> 1000, brakeForce |-> 3000, handbrakePower |-> 2000,
      counterSteerAssist |-> 1000, stabilityControl |-> 1000, tractionControl |-> 1000,
      absEnabled |-> TRUE, driftAssist |-> 1000,
      maxSpeed |-> 5000, acceleration |-> 1000, steerSpeed |-> 300 ])

\* a record inside the ranges the TuningConfig comments document, as an
\* imported preset can carry: nose-heavy, all traction on the front axle
DocRangeTuning ==
  Override(DEFAULT_TUNING,
    [ mass |-> 800, weightDistribution |-> 900, tractionPeak |-> 1500,
      slipAngleOptimal |-> 5000, tractionBiasFront |-> 1000,
      brakeForce |-> 3000, maxSpeed |-> 5000, acceleration |-> 1000 ])

\* a version-1 preset: the legacy fields only, defaults fill in the rest
LegacyTuning ==
  [ maxSpeed |-> 18000, acceleration |-> 300, reversePower |-> 150, brakePower |-> 600,
    friction |-> 20, drag |-> 5, steerSpeed |-> 80, steerReturn |-> 100,
    offRoadFriction |-> 150 ]

Tunings == {DEFAULT_TUNING, SliderTuning, DocRangeTuning, LegacyTuning}

\* inputsRef.current
Inputs(up, down, left, right, space) ==
  [up |-> up, down |-> down, left |-> left, right |-> right, space |-> space]

NoInput == Inputs(FALSE, FALSE, FALSE, FALSE, FALSE)

InputSnapshots ==
  { NoInput,
    Inputs(TRUE, FALSE, FALSE, FALSE, FALSE),
    Inputs(TRUE, FALSE, TRUE, FALSE, FALSE),
    Inputs(FALSE, TRUE, FALSE, TRUE, FALSE),
    Inputs(FALSE, FALSE, FALSE, FALSE, TRUE) }

\* carRef at construction
CarRef(initialPos, angle, T) ==
  [ x |-> initialPos.x, y |-> initialPos.y,
    speed |-> 0,
    angle |-> angle,
    velocity |-> [x |-> 0, y |-> 0],
    steeringAngle |-> 0,
    angularVelocity |-> 0,
    frontWeight |-> OrDefault(T, "weightDistribution", 500) * SC,
    rearWeight |-> WSC - OrDefault(T, "weightDistribution", 500) * SC,
    slipAngle |-> 0, frontSlipAngle |-> 0, rearSlipAngle |-> 0,
    frontGrip |-> SC, rearGrip |-> SC,
    driftFactor |-> 0 ]

(***************************************************************************)
(* SpecCar: the physics phase, frame after frame.  The track is seen only  *)
(* through what it answers each frame: off-road or not on a curve track,   *)
(* the push toward the road on the grid city.  Positions are in            *)
(* thousandths of a world unit here.                                       *)
(***************************************************************************)
MaxTicks == 4

\* a unit vector from the car to the nearest road point
PushDirections == { [x |-> -600, y |-> 800] }

Environments ==
  [ t \in {"LOOP", "URBAN"} |->
      IF t = "URBAN"
      THEN { [isOffroad |-> FALSE, push |-> p, rnd |-> 1] : p \in {NoPush} \cup PushDirections }
      ELSE { [isOffroad |-> o, push |-> NoPush, rnd |-> r] : o \in BOOLEAN, r \in {1, -1} } ]

InitCar ==
  /\ track \in {SquareRing, UrbanFreeroam}
  /\ tuning \in Tunings
  /\ car = CarRef(Point(InitialPos(track).x * SC, InitialPos(track).y * SC), 0, tuning)
  /\ lastInputs = NoInput
  /\ tickOut = [finalSpeed |-> 0, isOffroad |-> FALSE, push |-> NoPush]
  /\ urban = Idle /\ everLoaded = Idle /\ game = Idle
  /\ ticks = 0

\* one frame of loop() on the vehicle
Tick ==
  /\ ticks < MaxTicks
  /\ \E in \in InputSnapshots, env \in Environments[track.type] :
       LET next == PhysicsUpdate(car, in, tuning, env)
       IN  /\ car' = next
           /\ lastInputs' = in
           /\ tickOut' = [finalSpeed |-> next.speed, isOffroad |-> env.isOffroad, push |-> env.push]
  /\ ticks' = ticks + 1
  /\ UNCHANGED <<track, tuning, urban, everLoaded, game>>

NextCar == Tick

SpecCar == InitCar /\ [][NextCar]_vars

\* C3: after every tick, whatever the inputs and the tuning record, the front
\* and rear weight fractions add up to 1.
WeightsSumToOne == ticks > 0 => car.frontWeight + car.rearWeight = WSC

\* a tick under throttle or brake whose front fraction was clamped
WeightClampActive ==
  /\ ticks > 0
  /\ lastInputs.up \/ lastInputs.down
  /\ car.frontWeight \in {200 * SC, 800 * SC}

\* C4: after every tick, for a weightDistribution inside its documented range
\* 0..1, both weight fractions lie in [0.2, 0.8].
WeightsWithinClamp ==
  (ticks > 0 /\ Params(tuning).weightDistribution \in 0..SC)
    => /\ car.frontWeight >= 200 * SC /\ car.frontWeight <= 800 * SC
       /\ car.rearWeight >= 200 * SC /\ car.rearWeight <= 800 * SC

\* C5: at the end of every tick the magnitude of the velocity is at most the
\* tuning's maximum speed, whatever forces acted during the tick.
VelocityWithinMaxSpeed == ticks > 0 => Magnitude(car.velocity) <= tuning.maxSpeed

\* a tick whose forces took the car beyond the maximum speed
SpeedCapApplied == ticks > 0 /\ tickOut.finalSpeed > tuning.maxSpeed

\* C6: at the end of every tick the reported speed is the magnitude of the
\* velocity after the cap, and so never exceeds the maximum speed.
ReportedSpeedIsPostCap ==
  ticks > 0 => car.speed = Magnitude(car.velocity) /\ car.speed <= tuning.maxSpeed

\* C7: after every tick both grip coefficients lie in [0, 1], for tuning
\* records inside their documented ranges.
GripWithinUnit ==
  ticks > 0 => /\ car.frontGrip >= 0 /\ car.frontGrip <= SC
               /\ car.rearGrip >= 0 /\ car.rearGrip <= SC

(***************************************************************************)
(* SpecUrban: the grid city under updateLoadedTiles.  The vehicle is seen  *)
(* only through the grid cell it is in: each step it has crossed into one  *)
(* of the four cells next to its own, and updateLoadedTiles runs there,     *)
(* followed by the road test of the frame.  isPositionOnRoad is also asked *)
(* about positions away from the vehicle.                                  *)
(***************************************************************************)
\* world seeds (values of Date.now()) tabulated in Rand16Table
NumSeeds == 2
\* the cells the vehicle visits: |gx|, |gy| <= MaxGrid
MaxGrid == 1
\* cell crossings in one run
MaxMoves == 6

\* the positions isPositionOnRoad is asked about: a cell, and coordinates
\* inside the cell (on the rectangles' border lines, inside and outside them)
ProbeCells == { <<1, 2>>, <<4, 0>> }
ProbeOffsets == { <<300, 0>>, <<300, 400>>, <<501, 0>>, <<501, 400>> }

\* the answer of isPositionOnRoad kept with the position asked about
RoadAnswer(x, y, state) == [asked |-> TRUE, x |-> x, y |-> y, onRoad |-> IsPositionOnRoad(x, y, state)]

InitUrban ==
  /\ track = UrbanFreeroam
  /\ \E s \in 1..NumSeeds : urban = CreateUrbanWorldState(s)
  /\ everLoaded = urban.loadedTiles
  /\ car = InitialPos(track)
  /\ tuning = Idle
  /\ lastInputs = Idle
  /\ tickOut = [asked |-> FALSE, x |-> 0, y |-> 0, onRoad |-> FALSE]
  /\ game = Idle
  /\ ticks = 0

UrbanMove ==
  \E d \in {<<1, 0>>, <<-1, 0>>, <<0, 1>>, <<0, -1>>} :
    LET gx == urban.playerGridPos.gx + d[1]
        gy == urban.playerGridPos.gy + d[2]
        px == gx * TILE_SIZE + TILE_SIZE \div 2
        py == gy * TILE_SIZE + TILE_SIZE \div 2
    IN  /\ ticks < MaxMoves
        /\ Abs(gx) <= MaxGrid /\ Abs(gy) <= MaxGrid
        /\ ticks' = ticks + 1
        /\ car' = [car EXCEPT !.x = px, !.y = py]
        /\ urban' = UpdateLoadedTiles(px, py, urban)
        /\ everLoaded' = [ k \in DOMAIN everLoaded \cup DOMAIN urban'.loadedTiles |->
                             IF k \in DOMAIN everLoaded THEN everLoaded[k] ELSE urban'.loadedTiles[k] ]
        /\ tickOut' = RoadAnswer(px, py, urban')
        /\ UNCHANGED <<track, tuning, lastInputs, game>>

\* isPositionOnRoad asked about a position of the world
RoadQuery ==
  \E c \in ProbeCells, o \in ProbeOffsets :
    /\ tickOut' = RoadAnswer(c[1] * TILE_SIZE + o[1], c[2] * TILE_SIZE + o[2], urban)
    /\ UNCHANGED <<track, urban, everLoaded, car, tuning, lastInputs, game, ticks>>

NextUrban == UrbanMove \/ RoadQuery

SpecUrban == InitUrban /\ [][NextUrban]_vars

\* C1: at every moment, any two loaded tiles at adjacent grid coordinates
\* carry the same label on their shared edge, the origin tile included.
EdgesMatch ==
  \A k \in DOMAIN urban.loadedTiles :
    /\ (Key(k[1] + 1, k[2]) \in DOMAIN urban.loadedTiles =>
          urban.loadedTiles[k].edges.east = urban.loadedTiles[Key(k[1] + 1, k[2])].edges.west)
    /\ (Key(k[1], k[2] + 1) \in DOMAIN urban.loadedTiles =>
          urban.loadedTiles[k].edges.south = urban.loadedTiles[Key(k[1], k[2] + 1)].edges.north)

\* C2: for a fixed world seed, a tile generated again at a coordinate after an
\* eviction is the tile first generated there (type, edges and buildings),
\* whatever the path in between and whichever neighbours are loaded.
Regenerated ==
  \A k \in DOMAIN urban.loadedTiles : urban.loadedTiles[k] = everLoaded[k]

\* the tile-local coordinates of (x, y) lie inside a road rectangle of the tile
InsideRoadRect(tile, x, y) ==
  \E i \in 1..Len(tile.roadZones) :
    /\ x % TILE_SIZE \in tile.roadZones[i].x .. (tile.roadZones[i].x + tile.roadZones[i].width)
    /\ y % TILE_SIZE \in tile.roadZones[i].y .. (tile.roadZones[i].y + tile.roadZones[i].height)

\* C11: isPositionOnRoad answers true for every position whose tile is loaded
\* and whose tile-local coordinates lie inside one of the tile's road
\* rectangles, and false whenever the tile containing the position is not loaded.
OnRoadAnswer ==
  tickOut.asked =>
    LET k == Key(tickOut.x \div TILE_SIZE, tickOut.y \div TILE_SIZE)
    IN  /\ (k \in DOMAIN urban.loadedTiles /\ InsideRoadRect(urban.loadedTiles[k], tickOut.x, tickOut.y)
              => tickOut.onRoad)
        /\ (k \notin DOMAIN urban.loadedTiles => ~tickOut.onRoad)

\* a position on the border line of a road rectangle of a loaded tile away
\* from the origin was answered
OnRoadBorderAsked ==
  /\ tickOut.asked /\ tickOut.onRoad
  /\ tickOut.x \div TILE_SIZE # 0
  /\ tickOut.x % TILE_SIZE = 300
  /\ tickOut.y % TILE_SIZE = 0

\* C17: in the city as created and after every updateLoadedTiles call, every
\* cell within LOAD_RADIUS of playerGridPos (Chebyshev distance) holds a tile,
\* no loaded tile is further than LOAD_RADIUS + 1 from it, and playerGridPos is
\* the cell of the position the last call was given.
LoadRadiusKept ==
  /\ \A dx \in -LOAD_RADIUS..LOAD_RADIUS, dy \in -LOAD_RADIUS..LOAD_RADIUS :
        Has(urban.loadedTiles, urban.playerGridPos.gx + dx, urban.playerGridPos.gy + dy)
  /\ \A k \in DOMAIN urban.loadedTiles :
        /\ Abs(k[1] - urban.playerGridPos.gx) <= LOAD_RADIUS + 1
        /\ Abs(k[2] - urban.playerGridPos.gy) <= LOAD_RADIUS + 1
  /\ urban.playerGridPos.gx = FloorDiv(car.x, TILE_SIZE)
  /\ urban.playerGridPos.gy = FloorDiv(car.y, TILE_SIZE)

\* updateLoadedTiles has dropped tiles and the vehicle is in a cell left of
\* the origin column
TilesDroppedBehind ==
  /\ ticks > 0
  /\ urban.playerGridPos.gx < 0
  /\ DOMAIN everLoaded # DOMAIN urban.loadedTiles

(***************************************************************************)
(* SpecCatalog: getValidTileTypes called on every combination of           *)
(* constraints generateTile can hand it.  tickOut holds the constraints    *)
(* and, once the call is made, the list returned.                          *)
(***************************************************************************)
EdgeConstraints == {ROAD, BUILDING, NULL}

InitCatalog ==
  /\ \E n \in EdgeConstraints, e \in EdgeConstraints, s \in EdgeConstraints, w \in EdgeConstraints :
       tickOut = [constraints |-> Edges(n, e, s, w), called |-> FALSE, validTypes |-> <<>>]
  /\ track = Idle /\ urban = Idle /\ everLoaded = Idle /\ car = Idle /\ game = Idle
  /\ tuning = Idle /\ lastInputs = Idle /\ ticks = 0

GetValidTileTypesCall ==
  /\ ~tickOut.called
  /\ tickOut' = [tickOut EXCEPT !.called = TRUE, !.validTypes = GetValidTileTypes(tickOut.constraints)]
  /\ UNCHANGED <<track, urban, everLoaded, car, tuning, lastInputs, game, ticks>>

NextCatalog == GetValidTileTypesCall

SpecCatalog == InitCatalog /\ [][NextCatalog]_vars

\* C18: whatever the four constraints are (ROAD, BUILDING or none, each edge
\* on its own), getValidTileTypes returns at least one archetype and every
\* archetype it returns has the edge asked for wherever one is asked, so the
\* list generateTile selects from is never empty.
CatalogCoversConstraints ==
  tickOut.called =>
    /\ Len(tickOut.validTypes) > 0
    /\ \A i \in 1..Len(tickOut.validTypes) :
         /\ tickOut.validTypes[i] \in TileTypes
         /\ \A side \in {"north", "east", "south", "west"} :
              tickOut.constraints[side] # NULL
                => TILE_DEFINITIONS[tickOut.validTypes[i]].edges[side] = tickOut.constraints[side]

\* the call has been made with all four edges constrained, two of them to BUILDING
FullyConstrainedAsked ==
  /\ tickOut.called
  /\ tickOut.constraints = Edges(ROAD, BUILDING, BUILDING, ROAD)
  /\ Len(tickOut.validTypes) = 1


(***************************************************************************)
(* SpecGrip: the tire grip curve as a function of the slip angle, over     *)
(* traction-curve settings drawn from the documented ranges.  A state      *)
(* holds the last two evaluations of the curve.                            *)
(***************************************************************************)
\* the ends and a middle value of each documented traction-curve range
GripTunings ==
  { Override(DEFAULT_TUNING,
      [ tractionPeak |-> p, tractionSliding |-> s, slipAngleOptimal |-> o,
        slipAnglePeak |-> k, tractionFalloff |-> f ]) :
      p \in {500, 1000, 1500}, s \in {300, 1000},
      o \in {5000, 20000}, k \in {15000, 45000}, f \in {500, 2000} }

\* slip angles in thousandths of a degree, SlipStep apart, either sign
SlipStep == 5000
MaxSlipSteps == 19
SlipAngles == { n * SlipStep : n \in -2..MaxSlipSteps } \cup {90 * SC}

Sample(slip, T) == [slip |-> slip, grip |-> CalculateTireGrip(slip, Params(T))]

InitGrip ==
  /\ tuning \in GripTunings
  /\ \E s \in SlipAngles : tickOut = [prev |-> Sample(s, tuning), cur |-> Sample(s, tuning)]
  /\ track = Idle /\ urban = Idle /\ everLoaded = Idle /\ car = Idle
  /\ lastInputs = Idle /\ game = Idle /\ ticks = 0

\* the curve is evaluated at another slip angle
EvaluateGrip ==
  /\ \E s \in SlipAngles : tickOut' = [prev |-> tickOut.cur, cur |-> Sample(s, tuning)]
  /\ UNCHANGED <<track, urban, everLoaded, car, tuning, lastInputs, game, ticks>>

NextGrip == EvaluateGrip

SpecGrip == InitGrip /\ [][NextGrip]_vars

\* the shape of the curve between two evaluations a (smaller |slip|) and b
GripShape(a, b, P) ==
  LET sa == Abs(a.slip)
      sb == Abs(b.slip)
  IN  /\ (sa <= sb /\ sb <= P.slipAngleOptimal) => a.grip <= b.grip
      /\ (sa >= P.slipAngleOptimal /\ sa <= P.slipAnglePeak) => a.grip = P.tractionPeak
      /\ (sa >= P.slipAnglePeak /\ sa <= sb) => a.grip >= b.grip
      /\ sa >= 90 * SC => a.grip = P.tractionSliding

WellFormedCurve(P) ==
  /\ P.slipAngleOptimal <= P.slipAnglePeak
  /\ P.tractionSliding <= P.tractionPeak

DistSq(p, q) == (p.x - q.x) * (p.x - q.x) + (p.y - q.y) * (p.y - q.y)

\* distToSegment(p, v, w), squared: the distance from p to its projection on
\* the segment, the projection parameter t held in thousandths
DistToSegmentSq(p, v, w) ==
  LET l2 == DistSq(w, v)
      t0 == Div((p.x - v.x) * (w.x - v.x) + (p.y - v.y) * (w.y - v.y), l2)
      t == Max(0, Min(SC, t0))
      proj == [x |-> v.x + Mul(t, w.x - v.x), y |-> v.y + Mul(t, w.y - v.y)]
  IN  IF l2 = 0 THEN DistSq(p, v) ELSE DistSq(p, proj)

searchRadius == 40
lookBehind == 10

\* the segment indices the off-road test looks at: a window around the last
\* checkpoint, wrapped on a LOOP and cut at the ends of the array otherwise
WindowSegments(type, trackPoints, lastCheckpointIndex) ==
  LET totalPoints == Len(trackPoints)
      offsets == (-lookBehind)..(searchRadius - 1)
  IN  IF type = "LOOP"
      THEN { (lastCheckpointIndex + i + totalPoints * 2) % totalPoints : i \in offsets }
      ELSE { idx \in { lastCheckpointIndex + i : i \in offsets } :
               idx >= 0 /\ idx < totalPoints - 1 }

\* the segments whose distance enters minDist: the window, or every segment
\* when the window gave none
SegmentsChecked(type, trackPoints, lastCheckpointIndex) ==
  LET window == WindowSegments(type, trackPoints, lastCheckpointIndex)
  IN  IF window = {} THEN 0..(Len(trackPoints) - 2) ELSE window

\* isOffroad = minDist > track.width / 2: every checked segment is farther
\* than half the width
DetectOffroad(c, type, width, trackPoints, lastCheckpointIndex) ==
  LET totalPoints == Len(trackPoints)
  IN  \A idx \in SegmentsChecked(type, trackPoints, lastCheckpointIndex) :
        4 * DistToSegmentSq(c, At(trackPoints, idx), At(trackPoints, (idx + 1) % totalPoints))
          > width * width

searchWindow == 50

\* the scan of the LOOP logic: the index, among the searchWindow points after
\* the last checkpoint, of the first point nearest to the car
RECURSIVE ScanAhead(_, _, _, _, _)
ScanAhead(c, trackPoints, lastCheckpointIndex, i, best) ==
  IF i > searchWindow THEN best
  ELSE LET idx == (lastCheckpointIndex + i) % Len(trackPoints)
           d == DistSq(c, At(trackPoints, idx))
       IN  IF best.bestIdx = -1 \/ d < best.minD
           THEN ScanAhead(c, trackPoints, lastCheckpointIndex, i + 1, [bestIdx |-> idx, minD |-> d])
           ELSE ScanAhead(c, trackPoints, lastCheckpointIndex, i + 1, best)

\* whether an accepted advance from the checkpoint to bestIdx counts a lap
CrossesStart(lastCheckpointIndex, bestIdx, totalPoints) ==
  lastCheckpointIndex > totalPoints - searchWindow /\ bestIdx < searchWindow

\* the LOOP branch of the gameplay update: checkpoint, lap and finish flag
LoopLogic(c, trk, state) ==
  LET totalPoints == Len(state.trackPoints)
      found == ScanAhead(c, state.trackPoints, state.lastCheckpointIndex, 1,
                         [bestIdx |-> -1, minD |-> 0])
      bestIdx == found.bestIdx
      minD == found.minD
      currentD == DistSq(c, At(state.trackPoints, state.lastCheckpointIndex))
      advance0 == bestIdx - state.lastCheckpointIndex
      advance == IF advance0 < 0 THEN advance0 + totalPoints ELSE advance0
      accepted == /\ minD < currentD
                  /\ 4 * minD < 9 * trk.width * trk.width
                  /\ advance > 0 /\ advance < searchWindow
      lap == IF accepted /\ CrossesStart(state.lastCheckpointIndex, bestIdx, totalPoints)
             THEN state.currentLap + 1 ELSE state.currentLap
  IN  [state EXCEPT !.currentLap = lap,
                    !.lastCheckpointIndex = IF accepted THEN bestIdx ELSE @,
                    !.finished = (state.finished \/ lap > trk.lapsToWin)]

(***************************************************************************)
(* SpecLoop: a car on a ring track, frame after frame.  The physics phase  *)
(* is seen only through where it puts the car: each frame the car is on    *)
(* the centre line, at a track point no farther from where it was than the *)
(* fastest car travels in a frame.                                         *)
(***************************************************************************)
\* the top of the maxSpeed slider, in world units per frame
SliderMaxSpeed == 50

\* gameStateRef at construction
GameStateRef(trk) ==
  [ currentLap |-> 1,
    lastCheckpointIndex |-> 1,
    trackPoints |-> GenerateTrackPoints(trk.controlPoints),
    finished |-> FALSE ]

InitLoop ==
  /\ track \in {SquareRing, PentagonRing}
  /\ game = GameStateRef(track)
  /\ car = InitialPos(track)
  /\ tickOut = [ticked |-> FALSE, isOffroad |-> FALSE, prevLap |-> 1, prevCheckpoint |-> 1,
                onFinishCalls |-> 0]
  /\ urban = Idle /\ everLoaded = Idle /\ tuning = Idle /\ lastInputs = Idle
  /\ ticks = 0

\* the calls of onFinish made so far, after a frame that leaves the state after
OnFinishCalls(calls, trk, after) ==
  IF after.currentLap > trk.lapsToWin THEN calls + 1 ELSE calls

\* a frame that runs although the race is finished
LoopTickAfterFinish ==
  /\ \E i \in 1..Len(game.trackPoints) :
       LET p == game.trackPoints[i]
       IN  /\ DistSq(car, p) <= SliderMaxSpeed * SliderMaxSpeed
           /\ car' = p
           /\ tickOut' = [ticked |-> TRUE,
                          isOffroad |-> DetectOffroad(p, track.type, track.width,
                                                      game.trackPoints, game.lastCheckpointIndex),
                          prevLap |-> game.currentLap,
                          prevCheckpoint |-> game.lastCheckpointIndex,
                          onFinishCalls |-> OnFinishCalls(tickOut.onFinishCalls, track,
                                                          LoopLogic(p, track, game))]
           /\ game' = LoopLogic(p, track, game)
  /\ UNCHANGED <<track, urban, everLoaded, tuning, lastInputs, ticks>>

\* one frame of loop(): the car moves, the off-road test runs against the
\* checkpoint of the frame before, then the lap logic runs and, with the last
\* lap done, calls onFinish
LoopTick ==
  /\ ~game.finished
  /\ \E i \in 1..Len(game.trackPoints) :
       LET p == game.trackPoints[i]
       IN  /\ DistSq(car, p) <= SliderMaxSpeed * SliderMaxSpeed
           /\ car' = p
           /\ tickOut' = [ticked |-> TRUE,
                          isOffroad |-> DetectOffroad(p, track.type, track.width,
                                                      game.trackPoints, game.lastCheckpointIndex),
                          prevLap |-> game.currentLap,
                          prevCheckpoint |-> game.lastCheckpointIndex,
                          onFinishCalls |-> OnFinishCalls(tickOut.onFinishCalls, track,
                                                          LoopLogic(p, track, game))]
           /\ game' = LoopLogic(p, track, game)
  /\ UNCHANGED <<track, urban, everLoaded, tuning, lastInputs, ticks>>

\* loop() called with the race finished: it returns at once
FinishedFrame ==
  /\ game.finished
  /\ UNCHANGED vars

NextLoop == LoopTick \/ FinishedFrame

SpecLoop == InitLoop /\ [][NextLoop]_vars

\* C9: on a ring of any number of points the lap counter goes up by exactly 1
\* in a frame whose checkpoint index wraps from the end of the ring to its
\* start, and does not change in any other frame.
LapCountsWraps ==
  tickOut.ticked =>
    game.currentLap = tickOut.prevLap
                      + (IF game.lastCheckpointIndex < tickOut.prevCheckpoint THEN 1 ELSE 0)

\* the car is within half the track width of some segment of the whole sequence
NearWholeTrack(c, width, trackPoints) ==
  \E idx \in 0..(Len(trackPoints) - 2) :
    4 * DistToSegmentSq(c, At(trackPoints, idx), At(trackPoints, idx + 1)) <= width * width

\* C10: in every frame in which the car is within half the track width of the
\* nearest segment of the whole point sequence, it is not flagged off-road,
\* wherever the checkpoint index points.
OnRoadNeverOffroad ==
  (tickOut.ticked /\ NearWholeTrack(car, track.width, game.trackPoints)) => ~tickOut.isOffroad

\* C25: on a LOOP track finished is true exactly from the end of the first
\* frame that leaves currentLap above track.lapsToWin, onFinish has been
\* called once when it is and never before, and once finished is true no
\* frame changes the car, the lap count, the checkpoint index or anything
\* else of the game state.
FinishOnceAndFreeze ==
  [][ /\ game'.finished <=> game'.currentLap > track.lapsToWin
      /\ tickOut'.onFinishCalls = (IF game'.finished THEN 1 ELSE 0)
      /\ ~game.finished /\ game'.finished => tickOut.onFinishCalls = 0
      /\ game.finished => car' = car /\ game' = game /\ tickOut' = tickOut ]_vars

\* the race has been finished
RaceFinished ==
  /\ game.finished
  /\ game.currentLap = track.lapsToWin + 1
  /\ tickOut.onFinishCalls = 1

(***************************************************************************)
(* SpecEndless: frames of the INFINITE and of the TOUGE track.             *)
(***************************************************************************)
InitEndless ==
  /\ track \in {EndlessRally, EndlessTouge, LongTouge, UpwardTouge}
  /\ \E rnd \in RandomDraws :
       game = EndlessGameState(track, IF track.type = "TOUGE" THEN CreateTougeGenState(rnd) ELSE Idle)
  /\ car = IF track.type = "TOUGE"
           THEN [x |-> At(track.points, 5).x, y |-> At(track.points, 5).y, speed |-> 0,
                 seg |-> Len(track.points) - 6, off |-> 0]
           ELSE [x |-> At(track.points, 1).x, y |-> At(track.points, 1).y, speed |-> 0, seg |-> 1, off |-> 0]
  /\ tickOut = IF track.type = "TOUGE"
               THEN [generated |-> 0, lenGenerated |-> Len(track.points), wanted |-> FALSE, hairpins |-> 0,
                     threaded |-> game.tougeState, descentSegments |-> 0]
               ELSE [generated |-> 0, lenGenerated |-> Len(track.points), wanted |-> FALSE, hairpins |-> 0]
  /\ urban = Idle /\ everLoaded = Idle /\ tuning = Idle /\ lastInputs = Idle /\ ticks = 0

NextEndless == InfiniteTick \/ TougeTick

SpecEndless == InitEndless /\ [][NextEndless]_vars

\* C12: on the INFINITE track lastHairpinDirection changes only when a HAIRPIN
\* phase is entered, and every HAIRPIN phase after the first sets it to minus
\* the value the HAIRPIN phase before left: consecutive hairpins turn opposite
\* ways.
HairpinsAlternate ==
  [][ IF game'.genState.mode = "HAIRPIN" /\ game.genState.mode # "HAIRPIN"
      THEN /\ game'.genState.lastHairpinDirection \in {-1, 1}
           /\ game.genState.lastHairpinDirection # 0
                => game'.genState.lastHairpinDirection = -game.genState.lastHairpinDirection
           /\ Sign(game'.genState.targetCurvature) = game'.genState.lastHairpinDirection
      ELSE game'.genState.lastHairpinDirection = game.genState.lastHairpinDirection ]_vars

\* the second HAIRPIN phase has been entered
SecondHairpinEntered ==
  /\ tickOut.hairpins >= 2
  /\ game.genState.mode = "HAIRPIN"

\* C20: on the INFINITE track a frame appends a point only if the last point
\* is less than 2000 from the car and the car is faster than 0.5; every other
\* frame leaves the generator state and the last point as they were.
AppendsOnlyNearAndMoving ==
  [][ track.type = "INFINITE" =>
        LET near == Distance(car', game.trackPoints[Len(game.trackPoints)]) < 2000 * PX
            moving == car'.speed > 500
            appended == game'.trackPoints[Len(game'.trackPoints)] # game.trackPoints[Len(game.trackPoints)]
        IN  /\ appended => near /\ moving
            /\ ~(near /\ moving) => /\ ~appended
                                    /\ game'.genState = game.genState ]_vars

\* C19: a frame generates a bounded number of track points: on a TOUGE track
\* at most 200, and none after the one that brings the track above 500
\* points; on the INFINITE track at most one; and a frame that begins with
\* track wanted ahead generates at least one, so what a frame leaves undone
\* the frames after it do.
GenerationBoundedPerFrame ==
  /\ tickOut.generated >= 0
  /\ track.type = "TOUGE" =>
        /\ tickOut.generated <= 200
        /\ tickOut.generated >= 2 => tickOut.lenGenerated <= 501
  /\ track.type = "INFINITE" => tickOut.generated <= 1
  /\ tickOut.wanted => tickOut.generated >= 1

\* a frame on a TOUGE track has stopped at 200 points generated with track
\* still wanted ahead
TougeFrameCutShort ==
  /\ track.type = "TOUGE"
  /\ tickOut.generated = 200
  /\ Distance(car, game.trackPoints[1]) < 3000 * PX

\* a frame of a moving car too far from the end of the track, and one of a
\* resting car near the end, have passed without a point
FramePassedWithoutPoint ==
  /\ track.type = "INFINITE"
  /\ tickOut.generated = 0
  /\ car.speed > 500
  /\ Distance(car, game.trackPoints[Len(game.trackPoints)]) >= 2000 * PX

(***************************************************************************)
(* SpecTouge: generateTougeSegment called again and again on the state the *)
(* call before returned, from every state createTougeGenState can return.  *)
(* game.tougeState is the state threaded, tickOut the last call: the point *)
(* handed in, the point returned, and the directions of the last two       *)
(* hairpins begun (0: none yet).                                           *)
(***************************************************************************)
\* the draws of one call: the first (wobble, or length of the next descent)
\* and the second (number of hairpins) both low or both high, the third (the
\* direction) free
TougeDraws == { <<0, 0, 0>>, <<0, 0, 999>>, <<999, 999, 0>>, <<999, 999, 999>> }

TougeStart == Point(400 * PX, -500 * PX)

InitTouge ==
  /\ \E rnd \in TougeDraws : game = [tougeState |-> CreateTougeGenState(rnd)]
  /\ tickOut = [called |-> FALSE, lastPoint |-> TougeStart, point |-> TougeStart, hairpinDirs |-> <<0, 0>>]
  /\ track = Idle /\ car = Idle
  /\ urban = Idle /\ everLoaded = Idle /\ tuning = Idle /\ lastInputs = Idle /\ ticks = 0

\* the directions of the last two hairpins once the call has been made: a
\* hairpin begins with the call that makes hairpinProgress 1
HairpinDirs(dirs, before, after) ==
  IF before.phase = "HAIRPIN_SEQUENCE" /\ before.hairpinProgress = 0
  THEN <<dirs[2], before.currentHairpinDirection>>
  ELSE dirs

GenerateCall ==
  \E rnd \in TougeDraws :
    /\ game' = [tougeState |-> GenerateTougeSegment(TougeStart, game.tougeState, rnd).state]
    /\ tickOut' = [called |-> TRUE,
                   lastPoint |-> TougeStart,
                   point |-> GenerateTougeSegment(TougeStart, game.tougeState, rnd).point,
                   hairpinDirs |-> HairpinDirs(tickOut.hairpinDirs, game.tougeState, game'.tougeState)]
    /\ UNCHANGED <<track, urban, everLoaded, car, tuning, lastInputs, ticks>>

NextTouge == GenerateCall

SpecTouge == InitTouge /\ [][NextTouge]_vars

\* C13: in the sequence of hairpins the TOUGE generator produces, every
\* hairpin turns opposite to the hairpin before it, also when a DESCENT lies
\* between the two.
TougeHairpinsAlternate ==
  tickOut.hairpinDirs[1] # 0 => tickOut.hairpinDirs[2] = -tickOut.hairpinDirs[1]

\* C14: after every generateTougeSegment call currentAngle is within
\* ANGLE_MAX_DEVIATION of ANGLE_CENTER and the point returned lies at least
\* half a segment length further up (smaller y) than the point handed in.
TougeAngleInCone ==
  tickOut.called =>
    /\ Abs(game.tougeState.currentAngle - ANGLE_CENTER) <= ANGLE_MAX_DEVIATION
    /\ tickOut.point.y <= tickOut.lastPoint.y - (SEGMENT_LENGTH * PX) \div 2

\* a hairpin has pushed the angle to the edge of the cone
TougeAngleAtEdge ==
  /\ tickOut.called
  /\ game.tougeState.phase = "HAIRPIN_SEQUENCE"
  /\ Abs(game.tougeState.currentAngle - ANGLE_CENTER) = ANGLE_MAX_DEVIATION

(***************************************************************************)
(* Further properties of the endless tracks, checked under SpecEndless.    *)
(***************************************************************************)
\* the mode the comment at patternPhase gives each phase
ModeOfPhase(phase) ==
  IF phase \in {0, 2} THEN "LONG_STRAIGHT"
  ELSE IF phase = 1 THEN "HAIRPIN" ELSE "SLIGHT_TURN_SEQUENCE"

\* C21: on the INFINITE track the mode is always the one of the pattern phase
\* (LONG_STRAIGHT for 0 and 2, HAIRPIN for 1, SLIGHT_TURN_SEQUENCE for 3); the
\* phase changes only to the next of the rotation 0, 1, 2, 3, 0, and the mode
\* only with it; a frame that adds a point with remainingSteps run out
\* changes the phase, and every other frame that adds a point counts
\* remainingSteps down by one, so the rotation goes on while points are added.
PatternRotation ==
  [][ track.type = "INFINITE" =>
        LET a == game.genState
            b == game'.genState
            added == game'.trackPoints[Len(game'.trackPoints)] # game.trackPoints[Len(game.trackPoints)]
        IN  /\ a.mode = ModeOfPhase(a.patternPhase)
            /\ b.mode = ModeOfPhase(b.patternPhase)
            /\ b.patternPhase # a.patternPhase => b.patternPhase = (a.patternPhase + 1) % 4
            /\ b.mode # a.mode => b.patternPhase # a.patternPhase
            /\ added /\ a.remainingSteps <= 0 => b.patternPhase # a.patternPhase
            /\ added /\ a.remainingSteps > 0 =>
                 /\ b.patternPhase = a.patternPhase
                 /\ b.remainingSteps = a.remainingSteps - 1 ]_vars

\* the rotation has come round to the slight turns a second time
SecondRotationReached ==
  /\ track.type = "INFINITE"
  /\ tickOut.hairpins >= 2
  /\ game.genState.patternPhase = 3

(***************************************************************************)
(* SpecCorridor: the generation block of the INFINITE track alone, one     *)
(* segment after another from the constructed generator state, as it runs  *)
(* in the frames of a moving car near the end of the track.  game is the   *)
(* generator state, ticks the segments added, tickOut what the hairpin in  *)
(* hand, or the last one, has turned so far.                               *)
(***************************************************************************)
MaxSegments == 200

\* Math.random() for the direction and the counts: every hairpin length
CorridorDraws == { <<coin, (n * SC) \div 10, 0>> : coin \in {0, 999}, n \in 0 .. 9 }

InitCorridor ==
  /\ game = [genState |-> InitialGenState]
  /\ tickOut = [turned |-> 0, segments |-> 0, hairpins |-> 0]
  /\ ticks = 0
  /\ track = EndlessRally
  /\ car = Idle /\ tuning = Idle /\ lastInputs = Idle /\ urban = Idle /\ everLoaded = Idle

\* what the segment adds to the turn of the hairpin it belongs to
HairpinTurned(before, prepared, out) ==
  IF prepared.mode # "HAIRPIN" THEN out
  ELSE IF before.mode # "HAIRPIN"
  THEN [turned |-> prepared.currentCurvature, segments |-> 1, hairpins |-> out.hairpins + 1]
  ELSE [out EXCEPT !.turned = out.turned + prepared.currentCurvature,
                   !.segments = out.segments + 1]

\* the generation block: the state prepared, the segment added and counted
AddSegment ==
  \E rnd \in CorridorDraws :
    /\ ticks < MaxSegments
    /\ game' = [genState |-> CountSegment(PrepareSegment(game.genState, rnd))]
    /\ tickOut' = HairpinTurned(game.genState, PrepareSegment(game.genState, rnd), tickOut)
    /\ ticks' = ticks + 1
    /\ UNCHANGED <<track, urban, everLoaded, car, tuning, lastInputs>>

NextCorridor == AddSegment

SpecCorridor == InitCorridor /\ [][NextCorridor]_vars

\* C22: the currentCurvature of the segments of one HAIRPIN phase, whatever
\* its segment count (25 to 34) and direction, adds up to at most pi/2 in
\* absolute value.
HairpinTurnCapped == Abs(tickOut.turned) <= HALF_PI

\* C22 witness: a hairpin of 30 segments is complete and has turned more than
\* its target curvature times its length would
HairpinOverTarget ==
  /\ game.genState.patternPhase = 2
  /\ tickOut.segments = 30
  /\ Abs(tickOut.turned) > 1500

(***************************************************************************)
(* SpecTougePhases: generateTougeSegment called again and again as in      *)
(* SpecTouge, with the calls of each phase counted.  tickOut.calls is the  *)
(* number of calls made in the phase in hand, tickOut.last the phase that  *)
(* ended last with its calls and, for a hairpin sequence, its plan.        *)
(***************************************************************************)
\* Math.random() where it draws a length or a count: low, middle, high
CountDraws == {0, 500, 999}

\* the draws of one call on the state: in a DESCENT the wobble (first) and
\* the number of hairpins (second); in a hairpin sequence the length of the
\* next descent (first).  The draw of the direction (third) is held at 0.
PhaseDraws(state) ==
  IF state.phase = "DESCENT"
  THEN { <<w, n, 0>> : w \in {0, 999}, n \in CountDraws }
  ELSE { <<n, 0, 0>> : n \in CountDraws }

NoPhase == [phase |-> "NONE", calls |-> 0, planned |-> 0]

InitTougePhases ==
  /\ \E n \in CountDraws : game = [tougeState |-> CreateTougeGenState(<<n, 0, 0>>)]
  /\ tickOut = [calls |-> 0, last |-> NoPhase]
  /\ track = Idle /\ car = Idle
  /\ urban = Idle /\ everLoaded = Idle /\ tuning = Idle /\ lastInputs = Idle /\ ticks = 0

\* the count after a call that took the state from before to after
PhaseCount(out, before, after) ==
  IF after.phase = before.phase
  THEN [out EXCEPT !.calls = out.calls + 1]
  ELSE [calls |-> 0,
        last |-> [phase |-> before.phase, calls |-> out.calls + 1,
                  planned |-> IF before.phase = "DESCENT" THEN 0 ELSE before.hairpinsInSequence]]

CountedCall ==
  \E rnd \in PhaseDraws(game.tougeState) :
    /\ game' = [tougeState |-> GenerateTougeSegment(TougeStart, game.tougeState, rnd).state]
    /\ tickOut' = PhaseCount(tickOut, game.tougeState, game'.tougeState)
    /\ UNCHANGED <<track, urban, everLoaded, car, tuning, lastInputs, ticks>>

NextTougePhases == CountedCall

SpecTougePhases == InitTougePhases /\ [][NextTougePhases]_vars

\* C23: a DESCENT lasts 15 to 40 calls and is followed by a HAIRPIN_SEQUENCE;
\* a HAIRPIN_SEQUENCE plans 3 to 9 hairpins, lasts 25 calls for each and is
\* followed by a DESCENT; no phase in hand has outlasted those lengths, so the
\* two phases alternate for as long as calls are made.
TougePhasesAlternate ==
  LET state == game.tougeState
      last == tickOut.last
  IN  /\ last.phase = "DESCENT" =>
           /\ last.calls >= DESCENT_MIN_SEGMENTS /\ last.calls <= DESCENT_MAX_SEGMENTS
           /\ state.phase = "HAIRPIN_SEQUENCE"
      /\ last.phase = "HAIRPIN_SEQUENCE" =>
           /\ last.planned >= HAIRPIN_MIN_COUNT /\ last.planned <= HAIRPIN_MAX_COUNT
           /\ last.calls = HAIRPIN_SEGMENTS * last.planned
           /\ state.phase = "DESCENT"
      /\ state.phase = "DESCENT" => tickOut.calls < DESCENT_MAX_SEGMENTS
      /\ state.phase = "HAIRPIN_SEQUENCE" =>
           /\ state.hairpinsInSequence >= HAIRPIN_MIN_COUNT
           /\ state.hairpinsInSequence <= HAIRPIN_MAX_COUNT
           /\ tickOut.calls < HAIRPIN_SEGMENTS * state.hairpinsInSequence

\* a sequence of six hairpins has ended after 150 calls and a descent of 28
\* calls is in its last call
SixHairpinsThenDescent ==
  /\ tickOut.last = [phase |-> "HAIRPIN_SEQUENCE", calls |-> 150, planned |-> 6]
  /\ game.tougeState.phase = "DESCENT"
  /\ tickOut.calls = 27
  /\ game.tougeState.descentRemaining = 1

\* C29: on a TOUGE track the stored tougeState is the state that as many
\* successive generateTougeSegment steps give as segments have been added,
\* each step taking the state the step before returned, also when a frame
\* adds several segments; so no DESCENT phase contributes more than 40
\* segments.
TougeStateThreaded ==
  track.type = "TOUGE" =>
    /\ game.tougeState = tickOut.threaded
    /\ tickOut.descentSegments <= DESCENT_MAX_SEGMENTS

\* C26: on the INFINITE and on the TOUGE track the sequence of track points
\* always holds at least two points, and a frame removes at most one point,
\* from the end opposite to the one it generates at (the first point on the
\* INFINITE track, the last on the TOUGE track), and only when the sequence
\* holds more than 300 points.
TrimsOnePointWhenLong ==
  [][ LET removed == IF track.type = "INFINITE"
                     THEN game'.checkpointsCrossed - game.checkpointsCrossed
                     ELSE IF game'.distanceTraveled # game.distanceTraveled THEN 1 ELSE 0
          pointsBefore == game.trackPoints
          pointsAfter == game'.trackPoints
      IN  /\ Len(pointsBefore) >= 2 /\ Len(pointsAfter) >= 2
          /\ removed \in {0, 1}
          /\ Len(pointsAfter) = Len(pointsBefore) + tickOut'.generated - removed
          /\ removed = 1 => tickOut'.lenGenerated > 300
          /\ track.type = "INFINITE" =>
               pointsAfter[1] = IF removed = 1 THEN pointsBefore[2] ELSE pointsBefore[1]
          /\ track.type = "TOUGE" =>
               pointsAfter[Len(pointsAfter)] = IF removed = 1 THEN pointsBefore[Len(pointsBefore) - 1]
                                               ELSE pointsBefore[Len(pointsBefore)] ]_vars

\* points have been removed on the INFINITE track
PointsTrimmed ==
  /\ track.type = "INFINITE"
  /\ game.checkpointsCrossed >= 2
  /\ Len(game.trackPoints) = 300

\* a point has been removed on a TOUGE track
TougePointTrimmed ==
  /\ track.type = "TOUGE"
  /\ game.distanceTraveled > 0

(***************************************************************************)
(* SpecProgress: frames of the INFINITE track with the car put anywhere,   *)
(* on a track long enough for points to be removed from the first frame    *)
(* on.  tickOut keeps where the car was put and the progress validated     *)
(* before the frame.                                                       *)
(***************************************************************************)
\* an INFINITE track as importTracksFromJSON takes it from a file: 301
\* points in a line, 50 apart
LongRally ==
  [type |-> "INFINITE", controlPoints |-> <<>>,
   points |-> [i \in 1..301 |-> Point((i - 1) * 50 * PX, 0)],
   width |-> TRACK_WIDTH, lapsToWin |-> 999]

\* frames of a run
MaxJumps == 4

\* where a frame's physics may leave the car: at the first point of the
\* track, further on, beyond the 50 points the checkpoint scan looks at, at
\* the last point, and off the track behind its start
CarPlaces(points) ==
  { points[1], points[25], points[70], points[Len(points)], Point(-2000 * PX, 0) }

\* lastCheckpointIndex + checkpointsCrossed
ValidatedProgress(state) == state.lastCheckpointIndex + state.checkpointsCrossed

InitProgress ==
  /\ track = LongRally
  /\ game = EndlessGameState(track, Idle)
  /\ car = [x |-> At(track.points, 0).x, y |-> At(track.points, 0).y, speed |-> 0]
  /\ tickOut = [movedBack |-> FALSE, progressBefore |-> ValidatedProgress(game)]
  /\ urban = Idle /\ everLoaded = Idle /\ tuning = Idle /\ lastInputs = Idle /\ ticks = 0

\* one frame on the INFINITE track, the car wherever the physics left it
ProgressTick ==
  \E place \in CarPlaces(game.trackPoints), speed \in CarSpeeds, rnd \in {<<0, 0, 0>>} :
    /\ ticks < MaxJumps
    /\ car' = [x |-> place.x, y |-> place.y, speed |-> speed]
    /\ game' = InfiniteLogic(game, car', rnd)
    /\ tickOut' = [movedBack |-> place.x < car.x, progressBefore |-> ValidatedProgress(game)]
    /\ ticks' = ticks + 1
    /\ UNCHANGED <<track, urban, everLoaded, tuning, lastInputs>>

NextProgress == ProgressTick

SpecProgress == InitProgress /\ [][NextProgress]_vars

\* C27: on the INFINITE track lastCheckpointIndex + checkpointsCrossed never
\* gets smaller from one frame to the next, wherever the car is.
ProgressNeverBackward ==
  ValidatedProgress(game) >= tickOut.progressBefore

\* the car has been moved back after the first point was removed with
\* lastCheckpointIndex at 0
MovedBackAfterTrim ==
  /\ tickOut.movedBack
  /\ game.checkpointsCrossed >= 2
  /\ game.lastCheckpointIndex = 0
  /\ ValidatedProgress(game) = tickOut.progressBefore + 1

\* C28: in the grid city the number of loaded tiles never exceeds
\* (2 * LOAD_RADIUS + 1) squared, 49, whatever cells the vehicle has
\* crossed into.
LoadedTilesWithinBlock ==
  track = UrbanFreeroam =>
    Cardinality(DOMAIN urban.loadedTiles) <= (2 * LOAD_RADIUS + 1) * (2 * LOAD_RADIUS + 1)

\* the speed the handbrake is tested against: the magnitude of the velocity
\* once the drive forces of the frame are applied
SpeedAfterDrive(c, in, P, env) ==
  Magnitude(ApplyDriveForces(WeightTransfer(Steering(c, in, P), in, P),
                             DriveForces(WeightTransfer(Steering(c, in, P), in, P), in, P),
                             P, env.rnd).velocity)

\* targetRearSlip of the frame
TargetRearSlip(c, in, P) ==
  P.handbrakeSlipAngle * (IF Steering(c, in, P).steeringAngle < 0 THEN -1 ELSE 1)

\* the inputs with the handbrake let go
Released(in) == [in EXCEPT !.space = FALSE]

\* C30: a frame with the handbrake held and the speed above 1 leaves the
\* stored rear slip angle nearer to handbrakeSlipAngle, signed by the
\* steering direction, than the frame found it, and the stored rear grip
\* below the one the same frame stores with the handbrake let go.
HandbrakeSlipsRear ==
  [][ \A r \in {1, -1} :
        LET env == [isOffroad |-> tickOut'.isOffroad, push |-> tickOut'.push, rnd |-> r]
            target == TargetRearSlip(car, lastInputs', Params(tuning))
        IN  ( /\ car' = PhysicsUpdate(car, lastInputs', tuning, env)
              /\ lastInputs'.space
              /\ car.speed > 1 * SC
              /\ SpeedAfterDrive(car, lastInputs', Params(tuning), env) > 1 * SC )
            => /\ car.rearSlipAngle # target
                  => Abs(target - car'.rearSlipAngle) < Abs(target - car.rearSlipAngle)
               /\ car'.rearGrip < PhysicsUpdate(car, Released(lastInputs'), tuning, env).rearGrip ]_vars

(***************************************************************************)
(* SpecDefaults: the parameter block at the head of the tick, handed       *)
(* tuning records that lack fields.                                        *)
(***************************************************************************)
\* T with field f taken out
Without(T, f) == [k \in DOMAIN T \ {f} |-> T[k]]

\* the fields the tick reads from the tuning prop
TickFields == DOMAIN Params(DEFAULT_TUNING)

\* records lacking one field, a record carrying maxSpeed alone, and a
\* version-1 preset with stronger brakes and no brakeForce
PartialTunings ==
  { Without(T, f) : T \in {DEFAULT_TUNING, SliderTuning, DocRangeTuning},
                    f \in TickFields \cup {"brakePower"} }
    \cup { [maxSpeed |-> 10000], Override(LegacyTuning, [brakePower |-> 900]) }

\* the optional fields whose documented range begins at 0
ZeroFields ==
  { "tractionLossMult", "tractionBiasFront", "weightDistribution", "weightTransferAccel",
    "weightTransferBrake", "engineBraking", "brakeBiasFront", "handbrakePower",
    "brakeLockupRotation" }

\* the stock record with one of those fields set to 0
ZeroedTunings == { Override(DEFAULT_TUNING, [k \in {f} |-> 0]) : f \in ZeroFields }

InitDefaults ==
  /\ tuning \in PartialTunings \cup Tunings \cup ZeroedTunings
  /\ tickOut = [read |-> FALSE, params |-> Params(DEFAULT_TUNING)]
  /\ track = SquareRing
  /\ car = Idle /\ lastInputs = Idle /\ urban = Idle /\ everLoaded = Idle /\ game = Idle
  /\ ticks = 0

\* the tick derives its constants from the tuning prop
ReadParameters ==
  /\ ~tickOut.read
  /\ tickOut' = [read |-> TRUE, params |-> Params(tuning)]
  /\ UNCHANGED <<track, urban, everLoaded, car, tuning, lastInputs, game, ticks>>

NextDefaults == ReadParameters

SpecDefaults == InitDefaults /\ [][NextDefaults]_vars

\* v is a number or a boolean, not the outcome of reading a missing field
IsValue(v) == ToString(v) \notin {ToString(Undefined), ToString(NaN)}

\* C16: for every field the tick reads, when the tuning record handed to the
\* tick lacks that field, the value the tick uses is the field's value in
\* DEFAULT_TUNING; the legacy fields and brakeForce included.
AbsentFieldsTakeDefaults ==
  tickOut.read =>
    \A f \in TickFields \ DOMAIN tuning :
      /\ IsValue(tickOut.params[f])
      /\ tickOut.params[f] = DEFAULT_TUNING[f]

(***************************************************************************)
(* SpecThrottle: full throttle on a straight, frame after frame, with the  *)
(* stock tuning capped at maxSpeed 10.  The straight has no end and looks  *)
(* the same everywhere, so the car's place along it is not kept; of the    *)
(* frame count only the parity is kept.                                    *)
(***************************************************************************)
\* DEFAULT_TUNING with maxSpeed: 10
CappedTuning == Override(DEFAULT_TUNING, [maxSpeed |-> 10 * SC])

\* accelerate held, nothing else
FullThrottle == Inputs(TRUE, FALSE, FALSE, FALSE, FALSE)

\* the road under the car: never off it, nothing to push it back
StraightRoad == { [isOffroad |-> FALSE, push |-> NoPush, rnd |-> r] : r \in {1, -1} }

\* the car seen from its own place on the straight
OnStraight(c, start) == [c EXCEPT !.x = start.x, !.y = start.y]

InitThrottle ==
  /\ track = SquareRing
  /\ tuning = CappedTuning
  /\ car = CarRef(Point(InitialPos(track).x * SC, InitialPos(track).y * SC), 0, tuning)
  /\ lastInputs = NoInput
  /\ tickOut = [finalSpeed |-> 0, isOffroad |-> FALSE, push |-> NoPush]
  /\ urban = Idle /\ everLoaded = Idle /\ game = Idle
  /\ ticks = 0

\* one frame of loop() with accelerate held
ThrottleTick ==
  \E env \in StraightRoad :
    /\ car' = OnStraight(PhysicsUpdate(car, FullThrottle, tuning, env), car)
    /\ lastInputs' = FullThrottle
    /\ tickOut' = [finalSpeed |-> car'.speed, isOffroad |-> env.isOffroad, push |-> env.push]
    /\ ticks' = (ticks + 1) % 2
    /\ UNCHANGED <<track, tuning, urban, everLoaded, game>>

NextThrottle == ThrottleTick

\* what every frame does to the frame count
FrameCounted == ticks' = (ticks + 1) % 2

\* loop() ends by asking requestAnimationFrame for the next frame: a frame is
\* always due, every frame moves the count, so frames never stop coming
SpecThrottle == InitThrottle /\ [][NextThrottle]_vars /\ WF_ticks(FrameCounted)

\* C15: with maxSpeed 10 and every other field at its default, the car under
\* full throttle on a straight eventually reaches speed 10, and at no tick is
\* it faster.
ReachesMaxSpeedAndKeepsIt ==
  /\ <>(car.speed >= tuning.maxSpeed)
  /\ [](car.speed <= tuning.maxSpeed)

(***************************************************************************)
(* THE GRID CITY UNDER THE CAR.  The physics phase keeps positions in      *)
(* thousandths of a world unit; the road test and the nearest road point   *)
(* are taken at that precision.                                            *)
(***************************************************************************)
\* isPositionOnRoad(car.x, car.y, state) for a position in thousandths
IsCarOnRoad(worldX, worldY, state) ==
  LET gx == FloorDiv(worldX, TILE_SIZE * SC)
      gy == FloorDiv(worldY, TILE_SIZE * SC)
      localX == worldX - gx * TILE_SIZE * SC
      localY == worldY - gy * TILE_SIZE * SC
  IN  /\ Has(state.loadedTiles, gx, gy)
      /\ \E i \in 1..Len(state.loadedTiles[Key(gx, gy)].roadZones) :
           LET zone == state.loadedTiles[Key(gx, gy)].roadZones[i]
           IN  /\ localX >= zone.x * SC /\ localX <= (zone.x + zone.width) * SC
               /\ localY >= zone.y * SC /\ localY <= (zone.y + zone.height) * SC

\* Math.max(lo, Math.min(hi, v))
Clamp(lo, hi, v) == Max(lo, Min(hi, v))

\* (localX - clampedX) ** 2 + (localY - clampedY) ** 2, in squared tenths
ZoneDistSq(zone, localX, localY) ==
  ((localX - Clamp(zone.x * SC, (zone.x + zone.width) * SC, localX)) \div 100)
    * ((localX - Clamp(zone.x * SC, (zone.x + zone.width) * SC, localX)) \div 100)
  + ((localY - Clamp(zone.y * SC, (zone.y + zone.height) * SC, localY)) \div 100)
    * ((localY - Clamp(zone.y * SC, (zone.y + zone.height) * SC, localY)) \div 100)

\* the loop over tile.roadZones: the clamped point of the first zone at the
\* least distance, in the tile's coordinates
RECURSIVE NearestInZones(_, _, _, _, _, _)
NearestInZones(zones, i, localX, localY, nearestDist, nearestPoint) ==
  IF i > Len(zones) THEN nearestPoint
  ELSE IF ZoneDistSq(zones[i], localX, localY) < nearestDist
       THEN NearestInZones(zones, i + 1, localX, localY, ZoneDistSq(zones[i], localX, localY),
                           Point(Clamp(zones[i].x * SC, (zones[i].x + zones[i].width) * SC, localX),
                                 Clamp(zones[i].y * SC, (zones[i].y + zones[i].height) * SC, localY)))
       ELSE NearestInZones(zones, i + 1, localX, localY, nearestDist, nearestPoint)

\* findNearestRoadPosition(car.x, car.y, state) for a position in thousandths
FindNearestRoadPosition(worldX, worldY, state) ==
  LET gx == FloorDiv(worldX, TILE_SIZE * SC)
      gy == FloorDiv(worldY, TILE_SIZE * SC)
      localX == worldX - gx * TILE_SIZE * SC
      localY == worldY - gy * TILE_SIZE * SC
  IN  IF ~Has(state.loadedTiles, gx, gy) \/ Len(state.loadedTiles[Key(gx, gy)].roadZones) = 0
      THEN Point(worldX, worldY)
      ELSE LET local == NearestInZones(state.loadedTiles[Key(gx, gy)].roadZones, 1, localX, localY,
                                       2147483647, Point(localX, localY))
           IN  Point(gx * TILE_SIZE * SC + local.x, gy * TILE_SIZE * SC + local.y)

\* pushDir / dist when dist > 1, NoPush otherwise; long vectors are measured
\* in coarser units
UnitPush(dx, dy) ==
  LET k == Max(Abs(dx), Abs(dy)) \div 30000 + 1
      dist == Magnitude([x |-> dx \div k, y |-> dy \div k])
  IN  IF dist * k > 1 * SC
      THEN [x |-> TruncDiv((dx \div k) * SC, dist), y |-> TruncDiv((dy \div k) * SC, dist)]
      ELSE NoPush

\* the push of the road boundary on a car at (worldX, worldY)
RoadPush(worldX, worldY, state) ==
  IF IsCarOnRoad(worldX, worldY, state) THEN NoPush
  ELSE UnitPush(FindNearestRoadPosition(worldX, worldY, state).x - worldX,
                FindNearestRoadPosition(worldX, worldY, state).y - worldY)

\* steps 5 and 6 on the driven car: where the frame moves the car to
MovedFrom(driven, f, speed, in, P) ==
  UpdatePosition(Handbrake(Braking(driven, f, P, speed), in, P, speed))

MovedDriven(weighted, f, in, P, rnd) ==
  MovedFrom(ApplyDriveForces(weighted, f, P, rnd), f,
            Magnitude(ApplyDriveForces(weighted, f, P, rnd).velocity), in, P)

\* the car after step 6 of the frame
MovedCar(c, in, P, rnd) ==
  MovedDriven(WeightTransfer(Steering(c, in, P), in, P),
              DriveForces(WeightTransfer(Steering(c, in, P), in, P), in, P), in, P, rnd)

(***************************************************************************)
(* SpecCity: the car of the grid city driven north from the centre of the  *)
(* origin tile of a created world, accelerate held and nothing else, frame *)
(* after frame.  tickOut keeps the road test of the frame and the car's y  *)
(* before the frame; game.coin is the side Math.random() falls on in step  *)
(* 4, the same in every frame of a run.                                    *)
(***************************************************************************)
MaxCityTicks == 170

InitCity ==
  /\ track = UrbanFreeroam
  /\ \E s \in 1..NumSeeds : urban = CreateUrbanWorldState(s)
  /\ tuning = DEFAULT_TUNING
  /\ car = CarRef(Point(InitialPos(track).x * SC, InitialPos(track).y * SC), -HALF_PI, tuning)
  /\ lastInputs = NoInput
  /\ tickOut = [onRoad |-> TRUE, yBefore |-> InitialPos(track).y * SC]
  /\ \E coin \in {1, -1} : game = [coin |-> coin]
  /\ everLoaded = Idle
  /\ ticks = 0

\* the tiles and the boundary push of the frame, then the whole frame
CityFrame(c, moved, world, rnd) ==
  PhysicsUpdate(c, FullThrottle, tuning,
                [isOffroad |-> FALSE, push |-> RoadPush(moved.x, moved.y, world), rnd |-> rnd])

CityTiles(moved) == UpdateLoadedTiles(FloorDiv(moved.x, SC), FloorDiv(moved.y, SC), urban)

CityTick ==
  \E rnd \in {game.coin} :
    /\ ticks < MaxCityTicks
    /\ urban' = CityTiles(MovedCar(car, FullThrottle, Params(tuning), rnd))
    /\ car' = CityFrame(car, MovedCar(car, FullThrottle, Params(tuning), rnd), urban', rnd)
    /\ tickOut' = [onRoad |-> IsCarOnRoad(MovedCar(car, FullThrottle, Params(tuning), rnd).x,
                                          MovedCar(car, FullThrottle, Params(tuning), rnd).y, urban'),
                   yBefore |-> car.y]
    /\ lastInputs' = FullThrottle
    /\ ticks' = ticks + 1
    /\ UNCHANGED <<track, tuning, everLoaded, game>>

NextCity == CityTick

SpecCity == InitCity /\ [][NextCity]_vars

\* the x span of the vertical road of the origin crossroads
InOriginRoadSpan(x) ==
  /\ x >= ((TILE_SIZE - ROAD_WIDTH) \div 2) * SC
  /\ x <= ((TILE_SIZE + ROAD_WIDTH) \div 2) * SC

\* C24: every tick takes the car further north than it was, and no tick
\* reports the car off the road while its x is inside the span of the origin
\* crossroads' vertical road.
NorthOnTheRoad ==
  ticks > 0 =>
    /\ car.y < tickOut.yBefore
    /\ InOriginRoadSpan(car.x) => tickOut.onRoad

(***************************************************************************)
(* SpecBoundary: the car of the grid city left to roll, no key held, from  *)
(* a place on or beside a road of the created world.  tickOut keeps the    *)
(* road test of the frame's position update and whether the boundary push  *)
(* and damping were applied.                                               *)
(***************************************************************************)
\* frames of a run
MaxBoundaryTicks == 6

\* where earlier frames have left the car: on the vertical road of the
\* origin tile, east of it by half a unit, by one unit, by two and by sixty,
\* and in the tile at (-1, 1)
CarSpots ==
  { Point(400 * SC, 100 * SC), Point(500 * SC + 500, 100 * SC), Point(501 * SC, 100 * SC),
    Point(502 * SC, 100 * SC), Point(560 * SC, 100 * SC), Point(-400 * SC, 1200 * SC) }

\* and the velocity they have left it
CarVelocities == { [x |-> 0, y |-> 0], [x |-> 200, y |-> 0], [x |-> 0, y |-> -300] }

InitBoundary ==
  /\ track = UrbanFreeroam
  /\ \E s \in 1..NumSeeds : urban = CreateUrbanWorldState(s)
  /\ tuning = DEFAULT_TUNING
  /\ \E spot \in CarSpots, v \in CarVelocities :
       car = [CarRef(spot, 0, tuning) EXCEPT !.velocity = v, !.speed = Magnitude(v)]
  /\ lastInputs = NoInput
  /\ tickOut = [ticked |-> FALSE, onRoad |-> TRUE, pushed |-> FALSE]
  /\ game = [coin |-> 1]
  /\ everLoaded = Idle
  /\ ticks = 0

\* the frame with no key held: tiles updated at the moved position, the
\* road test, the push, and the rest of the physics
BoundaryTick ==
  LET moved == MovedCar(car, NoInput, Params(tuning), game.coin)
  IN  /\ ticks < MaxBoundaryTicks
      /\ urban' = CityTiles(moved)
      /\ car' = PhysicsUpdate(car, NoInput, tuning,
                              [isOffroad |-> FALSE, push |-> RoadPush(moved.x, moved.y, urban'),
                               rnd |-> game.coin])
      /\ tickOut' = [ticked |-> TRUE,
                     onRoad |-> IsCarOnRoad(moved.x, moved.y, urban'),
                     pushed |-> RoadPush(moved.x, moved.y, urban') # NoPush]
      /\ lastInputs' = NoInput
      /\ ticks' = ticks + 1
      /\ UNCHANGED <<track, tuning, everLoaded, game>>

NextBoundary == BoundaryTick

SpecBoundary == InitBoundary /\ [][NextBoundary]_vars

\* C31: on the grid city, every frame whose position update leaves the car
\* off the road rectangles applies the push toward the nearest road point
\* and the damping, frame after frame, also when the car is less than one
\* unit from the road or in a tile without a road rectangle.
OffRoadAlwaysPushed ==
  tickOut.ticked /\ ~tickOut.onRoad => tickOut.pushed

\* C32: a SLIGHT_TURN_SEQUENCE phase of the INFINITE generator is three
\* turns long: when the pattern goes on to the next LONG_STRAIGHT,
\* turnSequenceCount has reached 3.
SlightTurnsComeInThrees ==
  [][ ( /\ game.genState.mode = "SLIGHT_TURN_SEQUENCE"
        /\ game'.genState.mode = "LONG_STRAIGHT" )
      => game'.genState.turnSequenceCount = 3 ]_vars

\* C33: within a phase of the INFINITE generator, while the target stays,
\* currentCurvature comes no further from targetCurvature with any segment
\* and does not pass to the other side of it.
CurvatureEasesToTarget ==
  [][ ( /\ game'.genState.patternPhase = game.genState.patternPhase
        /\ game'.genState.targetCurvature = game.genState.targetCurvature )
      => /\ Abs(game'.genState.currentCurvature - game'.genState.targetCurvature)
              <= Abs(game.genState.currentCurvature - game.genState.targetCurvature)
         /\ game.genState.currentCurvature <= game.genState.targetCurvature
              => game'.genState.currentCurvature <= game'.genState.targetCurvature
         /\ game.genState.currentCurvature >= game.genState.targetCurvature
              => game'.genState.currentCurvature >= game'.genState.targetCurvature ]_vars

\* C34: within a HAIRPIN_SEQUENCE of the TOUGE generator the direction
\* stays through the calls of one hairpin and is negated by the call that
\* completes it, so each hairpin turns opposite to the one before; and
\* hairpinsCompleted never exceeds hairpinsInSequence.
SequenceHairpinsAlternate ==
  [][ /\ game.tougeState.hairpinsCompleted <= game.tougeState.hairpinsInSequence
      /\ game'.tougeState.hairpinsCompleted <= game'.tougeState.hairpinsInSequence
      /\ game.tougeState.phase = "HAIRPIN_SEQUENCE" =>
           /\ game'.tougeState.targetCurvature * game.tougeState.currentHairpinDirection >= 0
              \/ game'.tougeState.phase = "DESCENT"
           /\ game'.tougeState.currentHairpinDirection =
                IF game.tougeState.hairpinProgress + 1 >= HAIRPIN_SEGMENTS
                THEN -game.tougeState.currentHairpinDirection
                ELSE game.tougeState.currentHairpinDirection
           /\ game'.tougeState.hairpinsCompleted =
                IF game.tougeState.hairpinProgress + 1 >= HAIRPIN_SEGMENTS
                THEN game.tougeState.hairpinsCompleted + 1
                ELSE game.tougeState.hairpinsCompleted ]_vars

\* the third hairpin of a sequence is under way
ThirdHairpinOfSequence ==
  /\ game.tougeState.phase = "HAIRPIN_SEQUENCE"
  /\ game.tougeState.hairpinsCompleted = 2
  /\ game.tougeState.hairpinProgress > HAIRPIN_TRANSITION

(***************************************************************************)
(* SpecSpin: a rear-driven car under a record of the tuning panel (lightest*)
(* car, strongest engine, lowest rotation limit), on the road of a curve   *)
(* track, frame after frame.  tickOut keeps whether the frame ended in the *)
(* low-speed branch of the physics phase.                                  *)
(***************************************************************************)
MaxSpinTicks == 7

\* a record the tuning panel can produce
SpinTuning ==
  Override(DEFAULT_TUNING,
    [ mass |-> 800, acceleration |-> 1000, angularVelocityMax |-> 50, handbrakePower |-> 300 ])

SpinInputs ==
  { NoInput,
    Inputs(TRUE, FALSE, FALSE, FALSE, FALSE),
    Inputs(TRUE, FALSE, TRUE, FALSE, FALSE),
    Inputs(TRUE, FALSE, TRUE, FALSE, TRUE) }

InitSpin ==
  /\ track = SquareRing
  /\ tuning = SpinTuning
  /\ car = CarRef(Point(InitialPos(track).x * SC, InitialPos(track).y * SC), 0, tuning)
  /\ lastInputs = NoInput
  /\ tickOut = [finalSpeed |-> 0, isOffroad |-> FALSE, push |-> NoPush]
  /\ urban = Idle /\ everLoaded = Idle /\ game = Idle
  /\ ticks = 0

SpinTick ==
  /\ ticks < MaxSpinTicks
  /\ \E in \in SpinInputs :
       LET next == PhysicsUpdate(car, in, tuning, [isOffroad |-> FALSE, push |-> NoPush, rnd |-> 1])
       IN  /\ car' = next
           /\ lastInputs' = in
           /\ tickOut' = [finalSpeed |-> next.speed, isOffroad |-> FALSE, push |-> NoPush]
  /\ ticks' = ticks + 1
  /\ UNCHANGED <<track, tuning, urban, everLoaded, game>>

NextSpin == SpinTick

SpecSpin == InitSpin /\ [][NextSpin]_vars

\* C35: at the end of every tick the magnitude of car.angularVelocity is at
\* most angularVelocityMax, whatever the inputs and the tuning record.
AngularVelocityClamped ==
  ticks > 0 => Abs(car.angularVelocity) <= Params(tuning).angularVelocityMax

(***************************************************************************)
(* SpecSteer: the wheel turned for a few frames and then let go.  While    *)
(* game.released is 0 a steering key is held in every frame; from the      *)
(* first frame without one no steering key is pressed again and the        *)
(* throttle is held or not as in that frame; game.released counts those    *)
(* frames.  tickOut keeps the wheel angle before the frame, the target of  *)
(* the frame and the angle the steering stage left.                        *)
(***************************************************************************)
MaxTurnTicks == 3
MaxReturnTicks == 10

\* a front-driven record of the tuning panel with the quickest wheel
QuickSteerTuning ==
  Override(DEFAULT_TUNING,
    [ mass |-> 800, acceleration |-> 1000, driveBiasFront |-> 1000, steerSpeed |-> 300 ])

SteerTunings == {DEFAULT_TUNING, LegacyTuning, QuickSteerTuning}

TurnInputs == { Inputs(FALSE, FALSE, TRUE, FALSE, FALSE), Inputs(TRUE, FALSE, FALSE, TRUE, FALSE) }

ReturnInputs == { NoInput, Inputs(TRUE, FALSE, FALSE, FALSE, FALSE) }

InitSteer ==
  /\ track = SquareRing
  /\ tuning \in SteerTunings
  /\ car = CarRef(Point(InitialPos(track).x * SC, InitialPos(track).y * SC), 0, tuning)
  /\ lastInputs = NoInput
  /\ tickOut = [steerBefore |-> 0, targetSteer |-> 0, steered |-> 0]
  /\ game = [released |-> 0]
  /\ urban = Idle /\ everLoaded = Idle
  /\ ticks = 0

\* one frame of loop() under the keys in
SteerFrame(in) ==
  /\ car' = PhysicsUpdate(car, in, tuning, [isOffroad |-> FALSE, push |-> NoPush, rnd |-> 1])
  /\ tickOut' = [steerBefore |-> car.steeringAngle,
                 targetSteer |-> TargetSteer(car, in, Params(tuning)),
                 steered |-> Steering(car, in, Params(tuning)).steeringAngle]
  /\ lastInputs' = in
  /\ ticks' = ticks + 1
  /\ UNCHANGED <<track, tuning, urban, everLoaded>>

TurnTick ==
  /\ game.released = 0 /\ ticks < MaxTurnTicks
  /\ \E in \in TurnInputs : SteerFrame(in)
  /\ UNCHANGED game

ReturnTick ==
  /\ ticks > 0 /\ game.released < MaxReturnTicks
  /\ \E in \in ReturnInputs : (game.released > 0 => in = lastInputs) /\ SteerFrame(in)
  /\ game' = [released |-> game.released + 1]

NextSteer == TurnTick \/ ReturnTick

SpecSteer == InitSteer /\ [][NextSteer]_vars

\* the frames after which a released wheel is centred: the lock over the
\* return rate, rounded up
ReturnBound(P) == DegToRad(P.steeringLock) \div P.steerReturn + 1

\* C36: with both assists off the steering stage moves the wheel by at most
\* steerSpeed a frame toward a non-zero target and by at most steerReturn
\* toward zero, never past the target; the wheel stays within the steering
\* lock; and a released wheel is at exactly 0 after a bounded number of frames
\* and stays there.
SteeringChasesTarget ==
  (ticks > 0 /\ Params(tuning).counterSteerAssist = 0 /\ Params(tuning).driftAssist = 0) =>
    /\ Abs(tickOut.steered - tickOut.steerBefore)
         <= (IF tickOut.targetSteer # 0 THEN tuning.steerSpeed ELSE tuning.steerReturn)
    /\ tickOut.steerBefore <= tickOut.targetSteer
         => tickOut.steered >= tickOut.steerBefore /\ tickOut.steered <= tickOut.targetSteer
    /\ tickOut.steerBefore >= tickOut.targetSteer
         => tickOut.steered <= tickOut.steerBefore /\ tickOut.steered >= tickOut.targetSteer
    /\ Abs(car.steeringAngle) <= DegToRad(Params(tuning).steeringLock)
    /\ game.released >= ReturnBound(Params(tuning)) => car.steeringAngle = 0
    /\ (game.released > 1 /\ tickOut.steerBefore = 0) => car.steeringAngle = 0

\* a wheel let go at the lock that reached the centre in the last frame allowed
WheelCentredAtLast ==
  /\ game.released = ReturnBound(Params(tuning))
  /\ tickOut.steerBefore # 0
  /\ car.steeringAngle = 0

\* C37: for every field the tick reads, a value the tuning record supplies is
\* the value the tick uses, a supplied 0 included; a default stands in only
\* for a missing field.
SuppliedValuesAreUsed ==
  tickOut.read =>
    \A f \in TickFields \cap DOMAIN tuning : tickOut.params[f] = tuning[f]

\* C38: a frame with the handbrake held and neither accelerate nor brake
\* pressed, begun above the speed at which the handbrake acts, on the road and
\* with no push from a road boundary, leaves the velocity no larger than it
\* was and its component along the heading on the side of zero it was on.
HandbrakeOnlySlows ==
  [][ (lastInputs' = Inputs(FALSE, FALSE, FALSE, FALSE, TRUE)
         /\ Magnitude(car.velocity) > 1 * SC
         /\ ~tickOut'.isOffroad /\ tickOut'.push = NoPush)
        => /\ Magnitude(car'.velocity) <= Magnitude(car.velocity)
           /\ ForwardVel(car) > 0 => ForwardVel(car') >= 0
           /\ ForwardVel(car) < 0 => ForwardVel(car') <= 0 ]_vars

(***************************************************************************)
(* SpecIndex: a TOUGE track driven straight up the mountain at a steady    *)
(* 30 units a frame, the generator's draws the same in every frame of a    *)
(* run (tickOut.draws).  The physics step is not part of it.               *)
(***************************************************************************)
MaxIndexFrames == 260

\* a TOUGE track of two points as importTracksFromJSON takes it from a file:
\* the first point 5000 below the place the car is put, the second 2100 to
\* its left
ShortTouge ==
  [type |-> "TOUGE", controlPoints |-> <<>>,
   points |-> <<Point(400 * PX, 5000 * PX), Point(-1700 * PX, 0)>>,
   width |-> 280, lapsToWin |-> 999]

\* initialPos on a TOUGE track: track.points[5], or (400, 0) without one
TougeInitialPos(trk) ==
  IF Len(trk.points) >= 6 THEN At(trk.points, 5) ELSE Point(400 * PX, 0)

InitIndex ==
  /\ track \in {EndlessTouge, ShortTouge}
  /\ \E rnd \in RandomDraws :
       /\ game = EndlessGameState(track, CreateTougeGenState(rnd))
       /\ tickOut = [draws |-> rnd]
  /\ car = [x |-> TougeInitialPos(track).x, y |-> TougeInitialPos(track).y, speed |-> 0]
  /\ urban = Idle /\ everLoaded = Idle /\ tuning = Idle /\ lastInputs = Idle /\ ticks = 0

\* one frame: the car 30 units further up, then the TOUGE LOGIC; a frame
\* begun with the index past the end of the array does not get through its scan
IndexTick ==
  /\ ticks < MaxIndexFrames
  /\ game.lastCheckpointIndex < Len(game.trackPoints)
  /\ car' = [car EXCEPT !.y = car.y - 30 * PX, !.speed = 30 * SC]
  /\ game' = TougeLogic(game, car', tickOut.draws)
  /\ ticks' = ticks + 1
  /\ UNCHANGED <<track, urban, everLoaded, tuning, lastInputs, tickOut>>

NextIndex == IndexTick

SpecIndex == InitIndex /\ [][NextIndex]_vars

\* C39: on an endless track lastCheckpointIndex is an index of the track
\* point array at the end of every frame.
CheckpointIndexValid ==
  /\ game.lastCheckpointIndex >= 0
  /\ game.lastCheckpointIndex < Len(game.trackPoints)

\* the rectangle zone runs to the given side of its tile and covers the
\* centred road span there
ReachesSide(zone, side) ==
  LET lo == (TILE_SIZE - ROAD_WIDTH) \div 2
      hi == (TILE_SIZE + ROAD_WIDTH) \div 2
      spansX == zone.x <= lo /\ zone.x + zone.width >= hi
      spansY == zone.y <= lo /\ zone.y + zone.height >= hi
  IN  CASE side = "north" -> zone.y = 0 /\ spansX
        [] side = "south" -> zone.y + zone.height = TILE_SIZE /\ spansX
        [] side = "east"  -> zone.x + zone.width = TILE_SIZE /\ spansY
        [] OTHER          -> zone.x = 0 /\ spansY

\* C40: every archetype of the catalog has ROAD on exactly the sides one of
\* its road rectangles reaches across the centred road span, and every
\* combination of four edge labels belongs to exactly one archetype.
EdgesAreRoadsReachingSides ==
  tickOut.called =>
    /\ \A i \in 1..Len(tickOut.validTypes), side \in {"north", "east", "south", "west"} :
         (TILE_DEFINITIONS[tickOut.validTypes[i]].edges[side] = ROAD)
           <=> \E j \in 1..Len(TILE_DEFINITIONS[tickOut.validTypes[i]].roadZones) :
                 ReachesSide(TILE_DEFINITIONS[tickOut.validTypes[i]].roadZones[j], side)
    /\ (\A side \in {"north", "east", "south", "west"} : tickOut.constraints[side] # NULL)
         => Len(tickOut.validTypes) = 1
    /\ (\A side \in {"north", "east", "south", "west"} : tickOut.constraints[side] = NULL)
         => { tickOut.validTypes[i] : i \in 1..Len(tickOut.validTypes) } = TileTypes

\* the call without constraints has returned the whole catalog
WholeCatalogReturned ==
  /\ tickOut.called
  /\ tickOut.constraints = Edges(NULL, NULL, NULL, NULL)
  /\ Len(tickOut.validTypes) = 16
====
